---- MODULE Spec2Model ----
(***************************************************************************)
(* Failed-test retry subsystem of the Playwright/Cucumber framework:       *)
(*   - RetryHelpers (TypeScript): report parsing, the failed-test registry *)
(*     file, the retry summary file;                                       *)
(*   - the retry CLI (bash): main, clear_failed_tests,                     *)
(*     extract_failed_tests, retry_failed_tests.                           *)
(* Files are modelled as tagged values: kind "absent", "malformed" (text   *)
(* that JSON.parse rejects) or "json" with the parsed value in data.       *)
(***************************************************************************)
EXTENDS Integers, Sequences, FiniteSets, TLC

VARIABLES
    pc,            \* position of the running program
    now,           \* value new Date() yields during this run
    reportFile,    \* REPORT_PATH, reports/cucumber-report.json
    registry,      \* FAILED_TESTS_FILE, test-results/failed-tests.json
    summary,       \* RETRY_REPORT_FILE, reports/retry-report.json
    lastOp,        \* name of the operation executed last
    prevOp,        \* name of the operation executed before lastOp
    lastArgs,      \* arguments of the operation executed last
    lastRet,       \* value returned by the operation executed last
    raised,        \* the operation executed last ended with an error
    base,          \* getFailedTests() as it was after the last clear (or at the start)
    saved,         \* arguments of the saveFailedTest calls since then, in call order
    MAX_RETRIES,   \* -r/--retries of the retry CLI
    CLEAR_FAILED,  \* -c/--clear of the retry CLI
    SHOW_STATS,    \* -s/--stats of the retry CLI
    attempt,       \* loop counter of retry_failed_tests (0: loop not entered)
    extracted,     \* what extract_failed_tests found in the report
    runnerLog,     \* invocations of the test runner, in order
    retryReports,  \* reports/retry-<k>.json files written so far
    sleeps,        \* arguments of the sleep calls, in order
    exitStatus,    \* exit status of the retry CLI (-1 while it runs)
    out,           \* messages printed by the retry CLI
    oracle,        \* what the test runner does on its 1st, 2nd, ... invocation
    env,           \* process.env: the variables the helpers read
    cpuCount,      \* os.cpus().length
    totalmem,      \* os.totalmem(), in units of 4 MiB (1/256 GB)
    freemem,       \* os.freemem(), in the same unit
    baseFile,      \* environments/base.json
    envFiles,      \* environments/<name>.json, by name
    config,        \* EnvironmentManager.config (loaded FALSE: null)
    currentEnvironment,  \* EnvironmentManager.currentEnvironment
    calls,         \* number of calls made to the EnvironmentManager
    loadCount,     \* number of executions of loadEnvironment
    fileReads,     \* number of fs.readFileSync calls
    lastLoad,      \* the last execution of loadEnvironment and what it logged
    retryCall,     \* the running call of an in-process retry helper
    writers,       \* the processes inside saveFailedTest, each with its locals
    world          \* the CustomWorld of the running scenario and its browsers

fileVars == <<reportFile, registry, summary>>

opVars == <<lastOp, prevOp, lastArgs, lastRet, raised, base, saved>>

cliVars == <<MAX_RETRIES, CLEAR_FAILED, SHOW_STATS, attempt, extracted, runnerLog,
             retryReports, sleeps, exitStatus, out, oracle>>

hostVars == <<env, cpuCount, totalmem, freemem>>

\* state of the subsystems other than the failed-test retry
managerVars == <<config, currentEnvironment, calls, loadCount, fileReads, lastLoad>>

configVars == <<baseFile, envFiles, managerVars>>

nonRetryVars == <<hostVars, configVars, retryCall, writers, world>>

vars == <<pc, now, fileVars, opVars, cliVars, nonRetryVars>>

----------------------------------------------------------------------------
(* Bounds of the enumerated inputs *)

MaxFeatures == 2
MaxScenarios == 2
MaxSteps == 3
MaxRegistry == 3
MaxList == 3
MaxRetriesBound == 3
CliMaxFeatures == 1
CliMaxScenarios == 1
CliMaxSteps == 1
MaxCpu == 18
MaxTotalQuarters == 20
MaxEnvSet == 2
MaxWorkerCount == 10
MaxArrayLen == 1
MaxCalls == 3
MaxAttemptsBound == 4
MaxNameLen == 2
MaxSplitWorkers == 4

----------------------------------------------------------------------------
(* Generic helpers *)

SeqsOfLen(S, n) == [1..n -> S]

SeqsUpTo(S, n) == UNION {SeqsOfLen(S, k) : k \in 0..n}

Absent == [kind |-> "absent", data |-> <<>>]

Malformed == [kind |-> "malformed", data |-> <<>>]

JsonFile(v) == [kind |-> "json", data |-> v]

----------------------------------------------------------------------------
(* process.env and JavaScript numbers.  The value of an environment        *)
(* variable is a text, a sequence of characters; a number is an integer or *)
(* NaN.                                                                    *)

CI_INDICATORS == {"CI", "GITHUB_ACTIONS", "JENKINS_URL", "BUILDKITE", "CIRCLECI"}

WORKER_VARS == {"CI_WORKERS", "CUCUMBER_WORKERS", "PLAYWRIGHT_WORKERS"}

\* the variables that select the environment
ENV_SELECTORS == {"TEST_ENV", "NODE_ENV"}

\* the variables the cloud-capable world reads
WORLD_VARS == {"PLAYWRIGHT_SERVICE_URL", "PLAYWRIGHT_SERVICE_ACCESS_TOKEN", "HEADLESS", "CI"}

EnvNames == CI_INDICATORS \cup WORKER_VARS \cup ENV_SELECTORS \cup WORLD_VARS

\* process.env.X is undefined
Unset == [set |-> FALSE, text |-> <<>>]

SetTo(text) == [set |-> TRUE, text |-> text]

\* undefined and "" are falsy, every other string is truthy
Truthy(v) == v.set /\ Len(v.text) > 0

\* a || b
OrElse(a, b) == IF Truthy(a) THEN a ELSE b

NaN == [nan |-> TRUE, val |-> 0]

Num(n) == [nan |-> FALSE, val |-> n]

\* Math.max and Math.min: NaN when an argument is NaN
MathMax(a, b) ==
    IF a.nan \/ b.nan THEN NaN ELSE Num(IF a.val >= b.val THEN a.val ELSE b.val)

MathMin(a, b) ==
    IF a.nan \/ b.nan THEN NaN ELSE Num(IF a.val <= b.val THEN a.val ELSE b.val)

DigitOf ==
    ("0" :> 0) @@ ("1" :> 1) @@ ("2" :> 2) @@ ("3" :> 3) @@ ("4" :> 4) @@
    ("5" :> 5) @@ ("6" :> 6) @@ ("7" :> 7) @@ ("8" :> 8) @@ ("9" :> 9)

\* parseInt(text, 10) for a text without white space: an optional sign, then
\* the longest run of decimal digits; NaN when that run is empty
parseInt(text) ==
    LET neg == Len(text) > 0 /\ text[1] = "-"
        start == IF Len(text) > 0 /\ text[1] \in {"-", "+"} THEN 2 ELSE 1
        RECURSIVE Scan(_, _, _)
        Scan(i, acc, seen) ==
            IF i > Len(text) THEN [seen |-> seen, val |-> acc]
            ELSE IF text[i] \notin DOMAIN DigitOf THEN [seen |-> seen, val |-> acc]
            ELSE Scan(i + 1, acc * 10 + DigitOf[text[i]], TRUE)
        r == Scan(start, 0, FALSE)
    IN  IF ~ r.seen THEN NaN ELSE Num(IF neg THEN 0 - r.val ELSE r.val)

----------------------------------------------------------------------------
(* ParallelHelpers: the worker-count advisor.  Memory sizes are counted in *)
(* units of 4 MiB, 256 to the GB.                                          *)

\* variant: without the cap of 8
getOptimalWorkerCount_NoCap(cpus, total) ==
    LET workers == MathMax(Num(1), Num(cpus \div 2))
        maxWorkersByMemory == Num(total \div 128)
    IN  MathMin(workers, maxWorkersByMemory)

\* getOptimalWorkerCount
getOptimalWorkerCount(cpus, total) ==
    LET workers == MathMax(Num(1), Num(cpus \div 2))
        maxWorkersByMemory == Num(total \div 128)
    IN  MathMin(MathMin(workers, maxWorkersByMemory), Num(8))

\* variant: a count below 1 falls back to the computed value
getWorkerCount_PositiveOnly(e, cpus, total) ==
    LET envWorkers == OrElse(e["CUCUMBER_WORKERS"], e["PLAYWRIGHT_WORKERS"])
        count == parseInt(envWorkers.text)
    IN  IF Truthy(envWorkers)
        THEN (IF count.nan \/ count.val < 1 THEN getOptimalWorkerCount(cpus, total) ELSE count)
        ELSE getOptimalWorkerCount(cpus, total)

\* getWorkerCount
getWorkerCount(e, cpus, total) ==
    LET envWorkers == OrElse(e["CUCUMBER_WORKERS"], e["PLAYWRIGHT_WORKERS"])
        count == parseInt(envWorkers.text)
    IN  IF Truthy(envWorkers)
        THEN (IF count.nan THEN getOptimalWorkerCount(cpus, total) ELSE MathMax(Num(1), count))
        ELSE getOptimalWorkerCount(cpus, total)

\* variant: only the variable CI is looked at
isCI_OnlyCI(e) == Truthy(e["CI"])

\* isCI
isCI(e) == \E n \in CI_INDICATORS : Truthy(e[n])

\* getCIWorkerCount
getCIWorkerCount(e) ==
    IF Truthy(e["CI_WORKERS"]) THEN MathMax(Num(1), parseInt(e["CI_WORKERS"].text))
    ELSE Num(2)

\* getRecommendedWorkerCount
getRecommendedWorkerCount(e, cpus, total) ==
    IF isCI(e) THEN getCIWorkerCount(e) ELSE getWorkerCount(e, cpus, total)

\* Math.round(bytes / 2^30 * 100): a memory size in hundredths of a GB
RoundedHundredths(mem) == (200 * mem + 256) \div 512

\* getSystemInfo (memory fields in hundredths of a GB)
getSystemInfo(e, cpus, total, free) ==
    [cpuCount |-> cpus,
     totalMemoryGB |-> RoundedHundredths(total),
     freeMemoryGB |-> RoundedHundredths(free),
     recommendedWorkers |-> getRecommendedWorkerCount(e, cpus, total)]

\* variant: a worker count above 8 makes the configuration invalid
validateWorkerConfig_StrictCap(workerCount, e, cpus, total, free) ==
    LET systemInfo == getSystemInfo(e, cpus, total, free)
        overCpu == workerCount > systemInfo.cpuCount
        overMemory == 50 * workerCount > systemInfo.freeMemoryGB
        veryHigh == workerCount > 8
        single == workerCount = 1
    IN  [isValid |-> ~ overMemory /\ ~ veryHigh,
         warnings |->
             (IF overCpu THEN <<"exceeds_cpu_cores">> ELSE <<>>) \o
             (IF overMemory THEN <<"exceeds_free_memory">> ELSE <<>>) \o
             (IF veryHigh THEN <<"very_high_worker_count">> ELSE <<>>) \o
             (IF single THEN <<"single_worker">> ELSE <<>>),
         recommendations |->
             (IF overCpu THEN <<"reduce_to_cpu_count">> ELSE <<>>) \o
             (IF overMemory THEN <<"reduce_to_free_memory">> ELSE <<>>) \o
             (IF veryHigh THEN <<"cap_at_8">> ELSE <<>>) \o
             (IF single THEN <<"use_recommended_workers">> ELSE <<>>)]

\* validateWorkerConfig; the warnings are named by what they report
validateWorkerConfig(workerCount, e, cpus, total, free) ==
    LET systemInfo == getSystemInfo(e, cpus, total, free)
        overCpu == workerCount > systemInfo.cpuCount
        \* estimatedMemoryUsage = workerCount * 0.5, compared in hundredths
        overMemory == 50 * workerCount > systemInfo.freeMemoryGB
        veryHigh == workerCount > 8
        single == workerCount = 1
        w1 == IF overCpu THEN <<"exceeds_cpu_cores">> ELSE <<>>
        w2 == IF overMemory THEN <<"exceeds_free_memory">> ELSE <<>>
        w3 == IF veryHigh THEN <<"very_high_worker_count">> ELSE <<>>
        w4 == IF single THEN <<"single_worker">> ELSE <<>>
    IN  [isValid |-> ~ overMemory,
         warnings |-> w1 \o w2 \o w3 \o w4,
         recommendations |->
             (IF overCpu THEN <<"reduce_to_cpu_count">> ELSE <<>>) \o
             (IF overMemory THEN <<"reduce_to_free_memory">> ELSE <<>>) \o
             (IF veryHigh THEN <<"cap_at_8">> ELSE <<>>) \o
             (IF single THEN <<"use_recommended_workers">> ELSE <<>>)]

----------------------------------------------------------------------------
(* The structured (Cucumber JSON) report *)

Names == {"A", "B"}

Lines == {3}

Statuses == {"passed", "failed", "undefined"}

\* "" stands for an error_message that is missing or empty
Messages == {"", "e1", "e2"}

Step == {s \in [status : Statuses, error_message : Messages] :
            s.status # "failed" => s.error_message = ""}

----------------------------------------------------------------------------
(* RetryHelpers.parseFailedTestsFromReport *)

\* scenario.steps?.some(step => step.result?.status === 'failed')
HasFailedSteps(scenario) ==
    \E i \in 1..Len(scenario.steps) : scenario.steps[i].status = "failed"

\* variant: the last failing step instead of the first
FindFailedStep_Last(scenario) ==
    LET idx == {i \in 1..Len(scenario.steps) : scenario.steps[i].status = "failed"}
    IN  scenario.steps[CHOOSE i \in idx : \A j \in idx : i >= j]

\* scenario.steps.find(step => step.result?.status === 'failed')
FindFailedStep(scenario) ==
    LET idx == {i \in 1..Len(scenario.steps) : scenario.steps[i].status = "failed"}
    IN  scenario.steps[CHOOSE i \in idx : \A j \in idx : i <= j]

\* the record pushed for one failing scenario
FailedTestOf(feature, scenario, ts) ==
    LET failedStep == FindFailedStep(scenario)
    IN  [scenarioName |-> scenario.name,
         featureFile  |-> feature.uri,
         line         |-> scenario.line,
         error        |-> IF failedStep.error_message # ""
                          THEN failedStep.error_message ELSE "Unknown error",
         timestamp    |-> ts,
         attempt      |-> 1]

RECURSIVE ScanElements(_, _, _)
\* feature.elements?.forEach(scenario => ...), from element i on
ScanElements(feature, i, ts) ==
    IF i > Len(feature.elements) THEN <<>>
    ELSE (IF HasFailedSteps(feature.elements[i])
          THEN <<FailedTestOf(feature, feature.elements[i], ts)>>
          ELSE <<>>) \o ScanElements(feature, i + 1, ts)

RECURSIVE ScanFeatures(_, _, _)
\* reportData.forEach(feature => ...), from feature i on
ScanFeatures(report, i, ts) ==
    IF i > Len(report) THEN <<>>
    ELSE ScanElements(report[i], 1, ts) \o ScanFeatures(report, i + 1, ts)

\* the whole function: a missing file and a JSON.parse error both yield []
parseFailedTestsFromReport(file, ts) ==
    IF file.kind = "absent" THEN <<>>
    ELSE IF file.kind = "malformed" THEN <<>>
    ELSE ScanFeatures(file.data, 1, ts)

----------------------------------------------------------------------------------------------------------------------------------------------------------------------------------------------------
(* File system primitives (node fs) *)

existsSync(file) == file.kind # "absent"

\* JSON.parse(fs.readFileSync(...)): throws on text that is not JSON
JsonParse(file) == [threw |-> file.kind # "json", value |-> file.data]

\* fs.writeFileSync(path, JSON.stringify(value, null, 2))
JsonWrite(value) == JsonFile(value)

\* fs.unlinkSync / rm: fails on a path that does not exist
unlinkSync(file) == [threw |-> file.kind = "absent", file |-> Absent]

----------------------------------------------------------------------------
(* RetryHelpers: the failed-test registry *)

\* try { if (exists) return JSON.parse(read) } catch { warn }  return []
getFailedTests(reg) ==
    IF existsSync(reg)
    THEN (IF JsonParse(reg).threw THEN <<>> ELSE JsonParse(reg).value)
    ELSE <<>>

\* variant: the file is rewritten with the new record only
saveFailedTest_Replace(reg, failedTest) == JsonWrite(<<failedTest>>)

\* load the list, push, rewrite the file; returns the new registry file
saveFailedTest(reg, failedTest) ==
    LET existingFailed == getFailedTests(reg)
    IN  JsonWrite(Append(existingFailed, failedTest))

\* try { if (exists) unlink } catch { log }: only FAILED_TESTS_FILE is touched
clearFailedTests(reg, sum) ==
    LET r == IF existsSync(reg) THEN unlinkSync(reg) ELSE [threw |-> FALSE, file |-> reg]
    IN  [registry |-> r.file, summary |-> sum, threw |-> FALSE]

----------------------------------------------------------------------------
(* Retry CLI: clear_failed_tests *)

\* variant: rm without the [[ -f ... ]] tests
clear_failed_tests_NoGuard(reg, sum) ==
    [registry |-> unlinkSync(reg).file, summary |-> unlinkSync(sum).file,
     threw |-> unlinkSync(reg).threw \/ unlinkSync(sum).threw]

\* [[ -f file ]] && rm file, for the registry and for the summary; under
\* set -e a failing rm would end the script
clear_failed_tests(reg, sum) ==
    LET r1 == IF existsSync(reg) THEN unlinkSync(reg) ELSE [threw |-> FALSE, file |-> reg]
        r2 == IF existsSync(sum) THEN unlinkSync(sum) ELSE [threw |-> FALSE, file |-> sum]
    IN  [registry |-> r1.file, summary |-> r2.file, threw |-> r1.threw \/ r2.threw]

----------------------------------------------------------------------------
(* RetryHelpers.generateRetryReport *)

Pad2(n) == IF n < 10 THEN "0" \o ToString(n) ELSE ToString(n)

\* Number.prototype.toFixed(2) of a finite value given in hundredths
FormatHundredths(h) ==
    LET m == IF h < 0 THEN 0 - h ELSE h
    IN  (IF h < 0 THEN "-" ELSE "") \o ToString(m \div 100) \o "." \o Pad2(m % 100)

\* variant: the digits after the second decimal are cut off
ToFixed2Percent_Truncate(num, den) ==
    IF den = 0
    THEN (IF num = 0 THEN "NaN" ELSE IF num > 0 THEN "Infinity" ELSE "-Infinity")
    ELSE LET m == IF num < 0 THEN 0 - num ELSE num
             h == (m * 10000) \div den
         IN  FormatHundredths(IF num < 0 THEN 0 - h ELSE h)

\* (num / den * 100).toFixed(2); for the small counts of this model the
\* double-precision quotient rounds like the exact one (no tie below den = 32)
ToFixed2Percent(num, den) ==
    IF den = 0
    THEN (IF num = 0 THEN "NaN" ELSE IF num > 0 THEN "Infinity" ELSE "-Infinity")
    ELSE LET m == IF num < 0 THEN 0 - num ELSE num
             h == (2 * m * 10000 + den) \div (2 * den)
         IN  FormatHundredths(IF num < 0 THEN 0 - h ELSE h)

\* originalFailed.filter(o => !retryResults.some(r => r.scenarioName === o.scenarioName))
RecoveredDetails(originalFailed, retryResults) ==
    SelectSeq(originalFailed,
              LAMBDA o : ~ \E i \in 1..Len(retryResults) :
                              retryResults[i].scenarioName = o.scenarioName)

\* the record written to RETRY_REPORT_FILE
generateRetryReport(originalFailed, retryResults, ts) ==
    [timestamp        |-> ts,
     originalFailures |-> Len(originalFailed),
     retriedTests     |-> Len(originalFailed),
     stillFailing     |-> Len(retryResults),
     recovered        |-> Len(originalFailed) - Len(retryResults),
     successRate      |-> ToFixed2Percent(Len(originalFailed) - Len(retryResults),
                                          Len(originalFailed)),
     details          |-> [originalFailed |-> originalFailed,
                           retryResults   |-> retryResults,
                           recovered      |-> RecoveredDetails(originalFailed, retryResults)]]

----------------
(* Specification SpecParse: the test runner writes a report, feature by    *)
(* feature, scenario by scenario, step by step (within the bounds), and    *)
(* parseFailedTestsFromReport is applied to what has been written          *)

CountScenarios(report) ==
    LET RECURSIVE Sum(_)
        Sum(i) == IF i > Len(report) THEN 0 ELSE Len(report[i].elements) + Sum(i + 1)
    IN  Sum(1)

CountSteps(report) ==
    LET RECURSIVE SumE(_, _)
        SumE(f, j) == IF j > Len(f.elements) THEN 0
                      ELSE Len(f.elements[j].steps) + SumE(f, j + 1)
        RECURSIVE SumF(_)
        SumF(i) == IF i > Len(report) THEN 0 ELSE SumE(report[i], 1) + SumF(i + 1)
    IN  SumF(1)

\* the retry CLI is not running: its variables keep their start values
CliIdle ==
    /\ MAX_RETRIES = 3
    /\ CLEAR_FAILED = FALSE
    /\ SHOW_STATS = FALSE
    /\ attempt = 0
    /\ extracted = <<>>
    /\ runnerLog = <<>>
    /\ retryReports = <<>>
    /\ sleeps = <<>>
    /\ exitStatus = -1
    /\ out = {}
    /\ oracle = <<>>

\* the worker-count advisor is not in use: no variable it reads is set, and the
\* machine is the 8-CPU, 16 GB one
HostIdle ==
    /\ env = [n \in EnvNames |-> Unset]
    /\ cpuCount = 8
    /\ totalmem = 4096
    /\ freemem = 4096

DevName == <<"d", "e", "v">>

NoLoad == [env |-> <<>>, explicit |-> FALSE, logged |-> "none"]

\* the EnvironmentManager singleton as constructed, no configuration file around
ConfigIdle ==
    /\ baseFile = Absent
    /\ envFiles = <<>>
    /\ config = [loaded |-> FALSE, value |-> <<>>]
    /\ currentEnvironment = DevName
    /\ calls = 0
    /\ loadCount = 0
    /\ fileReads = 0
    /\ lastLoad = NoLoad

\* no call of an in-process retry helper is running
NoResult == [kind |-> "none", what |-> "", count |-> 0, cause |-> ""]

NoCall ==
    [helper |-> "none", max |-> 0, baseDelay |-> 0, delay |-> 0, attempt |-> 0,
     lastError |-> "undefined", log |-> <<>>, delays |-> <<>>, state |-> "idle",
     result |-> NoResult]

BackoffIdle == retryCall = NoCall

\* the processes that call saveFailedTest
WriterIds == {"w1", "w2"}

NoTest ==
    [scenarioName |-> "", featureFile |-> "", line |-> 0, error |-> "", timestamp |-> 0,
     attempt |-> 0]

IdleWriter == [pc |-> "idle", failedTest |-> NoTest, existingFailed |-> <<>>]

RaceIdle == writers = [w \in WriterIds |-> IdleWriter]

\* a CustomWorld as constructed: no field assigned, no browser started
NewWorld ==
    [browser |-> "undefined", context |-> FALSE, page |-> FALSE, wsEndpoint |-> <<>>,
     authorization |-> FALSE, headless |-> FALSE, threw |-> FALSE,
     localBrowser |-> "none", cloudBrowser |-> "none",
     contextOpen |-> FALSE, pageOpen |-> FALSE]

WorldIdle == world = NewWorld

InitParse ==
    /\ pc = "written"
    /\ now = 1
    /\ reportFile \in {Absent, Malformed, JsonFile(<<>>)}
    /\ registry = Absent
    /\ summary = Absent
    /\ lastOp = "none"
    /\ prevOp = "none"
    /\ lastArgs = <<>>
    /\ lastRet = <<>>
    /\ raised = FALSE
    /\ base = <<>>
    /\ saved = <<>>
    /\ CliIdle
    /\ HostIdle
    /\ ConfigIdle
    /\ BackoffIdle
    /\ RaceIdle
    /\ WorldIdle

\* the runner appends a feature record to the report
AppendFeature(stage, maxFeatures) ==
    /\ pc = stage
    /\ reportFile.kind = "json"
    /\ Len(reportFile.data) < maxFeatures
    /\ reportFile' = JsonFile(Append(reportFile.data, [uri |-> "f.feature", elements |-> <<>>]))
    /\ UNCHANGED <<pc, now, registry, summary, opVars, cliVars>>
    /\ UNCHANGED nonRetryVars

\* the runner appends a scenario record to the last feature
AppendScenario(stage, maxScenarios) ==
    /\ pc = stage
    /\ reportFile.kind = "json"
    /\ Len(reportFile.data) > 0
    /\ CountScenarios(reportFile.data) < maxScenarios
    /\ \E name \in Names, line \in Lines :
          LET r == reportFile.data
              f == r[Len(r)]
              sc == [name |-> name, line |-> line, steps |-> <<>>]
          IN  reportFile' = JsonFile([r EXCEPT ![Len(r)].elements = Append(f.elements, sc)])
    /\ UNCHANGED <<pc, now, registry, summary, opVars, cliVars>>
    /\ UNCHANGED nonRetryVars

\* the runner appends a step result to the last scenario of the last feature
AppendStep(stage, maxSteps) ==
    /\ pc = stage
    /\ reportFile.kind = "json"
    /\ Len(reportFile.data) > 0
    /\ Len(reportFile.data[Len(reportFile.data)].elements) > 0
    /\ CountSteps(reportFile.data) < maxSteps
    /\ \E st \in Step :
          LET r == reportFile.data
              n == Len(r[Len(r)].elements)
          IN  reportFile' = JsonFile([r EXCEPT ![Len(r)].elements[n].steps = Append(@, st)])
    /\ UNCHANGED <<pc, now, registry, summary, opVars, cliVars>>
    /\ UNCHANGED nonRetryVars

WriteFeature == AppendFeature("written", MaxFeatures)

WriteScenario == AppendScenario("written", MaxScenarios)

WriteStep == AppendStep("written", MaxSteps)

ParseReport ==
    /\ pc = "written"
    /\ pc' = "parsed"
    /\ lastOp' = "parseFailedTestsFromReport"
    /\ prevOp' = lastOp
    /\ lastArgs' = <<reportFile>>
    /\ lastRet' = parseFailedTestsFromReport(reportFile, now)
    /\ raised' = FALSE
    /\ UNCHANGED <<now, fileVars, base, saved, cliVars>>
    /\ UNCHANGED nonRetryVars

NextParse == WriteFeature \/ WriteScenario \/ WriteStep \/ ParseReport

SpecParse == InitParse /\ [][NextParse]_vars

----------------------------------------------------------------------------------------------------------------------------------------
(* Specification SpecHelpers: the operations on the registry file and the  *)
(* summary file, called in any order                                       *)

MkTest(name, err, ts) ==
    [scenarioName |-> name, featureFile |-> "f.feature", line |-> 3,
     error |-> err, timestamp |-> ts, attempt |-> 1]

\* records a caller can hand to saveFailedTest / generateRetryReport
Tests == {MkTest(n, "e1", 1) : n \in Names}

\* what an earlier run may have left behind
OldTest == MkTest("A", "e1", 0)

StaleSummary == generateRetryReport(<<OldTest>>, <<>>, 0)

InitHelpers ==
    /\ pc = "helpers"
    /\ now = 1
    /\ reportFile = Absent
    /\ registry \in {Absent, Malformed, JsonFile(<<OldTest>>)}
    /\ summary \in {Absent, JsonFile(StaleSummary)}
    /\ lastOp = "none"
    /\ prevOp = "none"
    /\ lastArgs = <<>>
    /\ lastRet = <<>>
    /\ raised = FALSE
    /\ base = getFailedTests(registry)
    /\ saved = <<>>
    /\ CliIdle
    /\ HostIdle
    /\ ConfigIdle
    /\ BackoffIdle
    /\ RaceIdle
    /\ WorldIdle

SaveFailedTest ==
    /\ pc = "helpers"
    /\ Len(getFailedTests(registry)) < MaxRegistry
    /\ \E t \in Tests :
          /\ registry' = saveFailedTest(registry, t)
          /\ lastArgs' = <<t>>
          /\ saved' = Append(saved, t)
    /\ lastOp' = "saveFailedTest"
    /\ prevOp' = lastOp
    /\ lastRet' = <<>>
    /\ raised' = FALSE
    /\ UNCHANGED <<pc, now, reportFile, summary, base, cliVars>>
    /\ UNCHANGED nonRetryVars

GetFailedTests ==
    /\ pc = "helpers"
    /\ lastOp' = "getFailedTests"
    /\ prevOp' = lastOp
    /\ lastArgs' = <<>>
    /\ lastRet' = getFailedTests(registry)
    /\ raised' = FALSE
    /\ UNCHANGED <<pc, now, fileVars, base, saved, cliVars>>
    /\ UNCHANGED nonRetryVars

ClearFailedTests ==
    /\ pc = "helpers"
    /\ LET r == clearFailedTests(registry, summary)
       IN  /\ registry' = r.registry
           /\ summary' = r.summary
           /\ raised' = r.threw
    /\ lastOp' = "clearFailedTests"
    /\ prevOp' = lastOp
    /\ lastArgs' = <<>>
    /\ lastRet' = <<>>
    /\ base' = <<>>
    /\ saved' = <<>>
    /\ UNCHANGED <<pc, now, reportFile, cliVars>>
    /\ UNCHANGED nonRetryVars

\* the CLI's clear step (retry-failed-tests.sh --clear)
ClearFailedTestsCli ==
    /\ pc = "helpers"
    /\ LET r == clear_failed_tests(registry, summary)
       IN  /\ registry' = r.registry
           /\ summary' = r.summary
           /\ raised' = r.threw
    /\ lastOp' = "clear_failed_tests"
    /\ prevOp' = lastOp
    /\ lastArgs' = <<>>
    /\ lastRet' = <<>>
    /\ base' = <<>>
    /\ saved' = <<>>
    /\ UNCHANGED <<pc, now, reportFile, cliVars>>
    /\ UNCHANGED nonRetryVars

NextHelpers ==
    \/ SaveFailedTest
    \/ GetFailedTests
    \/ ClearFailedTests
    \/ ClearFailedTestsCli

SpecHelpers == InitHelpers /\ [][NextHelpers]_vars

----------------------------------------------------------------------------
(* Specification SpecSummary: generateRetryReport applied to every pair of *)
(* lists of the bounded input set, over an absent or an earlier summary    *)

InitSummary ==
    /\ pc = "call"
    /\ now = 1
    /\ reportFile = Absent
    /\ registry = Absent
    /\ summary \in {Absent, JsonFile(StaleSummary)}
    /\ lastOp = "none"
    /\ prevOp = "none"
    /\ lastArgs \in SeqsUpTo(Tests, MaxList) \X SeqsUpTo(Tests, MaxList)
    /\ lastRet = <<>>
    /\ raised = FALSE
    /\ base = <<>>
    /\ saved = <<>>
    /\ CliIdle
    /\ HostIdle
    /\ ConfigIdle
    /\ BackoffIdle
    /\ RaceIdle
    /\ WorldIdle

GenerateRetryReport ==
    /\ pc = "call"
    /\ pc' = "returned"
    /\ summary' = JsonWrite(generateRetryReport(lastArgs[1], lastArgs[2], now))
    /\ lastOp' = "generateRetryReport"
    /\ prevOp' = lastOp
    /\ UNCHANGED <<now, reportFile, registry, lastArgs, lastRet, raised, base, saved, cliVars>>
    /\ UNCHANGED nonRetryVars

NextSummary == GenerateRetryReport

SpecSummary == InitSummary /\ [][NextSummary]_vars

----------------------------------------------------------------------------------------------------------------------------------------
(* Retry CLI (bash, set -e): functions *)

RETRY_DELAY == 2

\* show_retry_stats: prints the summary when the file is there
show_retry_stats(sum) ==
    IF existsSync(sum) THEN {"retry_statistics"} ELSE {"no_retry_statistics"}

\* variant: node ends with process.exit(1) whether or not failures were found
extract_failed_tests_AlwaysOne(report, reg, ts) ==
    IF ~ existsSync(report)
    THEN [exited |-> TRUE, rc |-> 1, registry |-> reg, failedTests |-> <<>>,
          out |-> {"report_not_found"}]
    ELSE IF JsonParse(report).threw
    THEN [exited |-> FALSE, rc |-> 1, registry |-> reg, failedTests |-> <<>>,
          out |-> {"analyzing", "error_parsing_report"}]
    ELSE LET failedTests == ScanFeatures(report.data, 1, ts)
         IN  [exited |-> FALSE, rc |-> 1,
              registry |-> IF Len(failedTests) > 0 THEN JsonWrite(failedTests) ELSE reg,
              failedTests |-> failedTests,
              out |-> {"analyzing", IF Len(failedTests) > 0 THEN "found_failed_tests"
                                    ELSE "no_failed_tests_found"}]

\* extract_failed_tests.  exited: the function ended the script (exit 1);
\* rc: its return status otherwise (that of node -e)
extract_failed_tests(report, reg, ts) ==
    IF ~ existsSync(report)
    THEN [exited |-> TRUE, rc |-> 1, registry |-> reg, failedTests |-> <<>>,
          out |-> {"report_not_found"}]
    ELSE IF JsonParse(report).threw
    THEN [exited |-> FALSE, rc |-> 1, registry |-> reg, failedTests |-> <<>>,
          out |-> {"analyzing", "error_parsing_report"}]
    ELSE LET failedTests == ScanFeatures(report.data, 1, ts)
         IN  IF Len(failedTests) > 0
             THEN [exited |-> FALSE, rc |-> 1, registry |-> JsonWrite(failedTests),
                   failedTests |-> failedTests, out |-> {"analyzing", "found_failed_tests"}]
             ELSE [exited |-> FALSE, rc |-> 0, registry |-> reg,
                   failedTests |-> failedTests, out |-> {"analyzing", "no_failed_tests_found"}]

\* identifiers the node -e snippet of retry_failed_tests declares
JsBindings == {"fs", "failedTests", "scenarios"}

\* placeholders of its template literal that bash leaves to node (\${...})
TemplateRefs == {"scenarios", "attempt"}

NoCommand == [empty |-> TRUE, names |-> <<>>, format |-> 0]

\* retry_command=$(node -e "..."): what node prints.  A missing registry, an
\* empty list, a JSON.parse error and a ReferenceError all print nothing, and
\* `local` hides node's exit status from set -e
retry_command(reg, k) ==
    IF ~ existsSync(reg) THEN NoCommand
    ELSE IF JsonParse(reg).threw THEN NoCommand
    ELSE IF Len(reg.data) = 0 THEN NoCommand
    ELSE IF ~ (TemplateRefs \subseteq JsBindings) THEN NoCommand
    ELSE [empty |-> FALSE,
          names |-> [i \in 1..Len(reg.data) |-> reg.data[i].scenarioName],
          format |-> k]

\* what the test runner can do when invoked
OutcomeKinds == {"recovered", "failing", "error"}

\* the report a retry run writes for the scenarios it was asked to run
RetryReportOf(names, failing) ==
    <<[uri |-> "f.feature",
       elements |-> [i \in 1..Len(names) |->
                        [name |-> names[i], line |-> 3,
                         steps |-> <<[status |-> IF failing THEN "failed" ELSE "passed",
                                      error_message |-> IF failing THEN "e1" ELSE ""]>>]]]>>

\* exit status of the runner and the retry-<k>.json it leaves
RunnerOutcome(kind, names) ==
    [rc     |-> IF kind = "recovered" THEN 0 ELSE 1,
     report |-> IF kind = "error" THEN Absent
                ELSE JsonFile(RetryReportOf(names, kind = "failing"))]

\* extract_failed_tests_from_retry: 0 when the report shows no failed step
extract_failed_tests_from_retry(retry_report) ==
    IF ~ existsSync(retry_report) THEN 1
    ELSE IF JsonParse(retry_report).threw THEN 1
    ELSE IF \E i \in 1..Len(retry_report.data) :
               \E j \in 1..Len(retry_report.data[i].elements) :
                   HasFailedSteps(retry_report.data[i].elements[j])
         THEN 1 ELSE 0

----------------------------------------------------------------------------
(* Specification Spec: one run of the retry CLI over the files an earlier  *)
(* test run and an earlier retry session may have left                     *)

\* what the runner does on each of n invocations.  The loop ends at the first
\* invocation that exits 0, so the entries after the first "recovered" are
\* never consulted; they are fixed to "recovered"
Oracles(n) ==
    {o \in SeqsOfLen(OutcomeKinds, n) :
        \A i \in 1..n : \A j \in i..n : o[i] = "recovered" => o[j] = "recovered"}

Init ==
    /\ pc = "report"
    /\ now = 1
    /\ reportFile \in {Absent, Malformed, JsonFile(<<>>)}
    /\ registry \in {Absent, JsonFile(<<OldTest>>)}
    /\ summary \in {Absent, JsonFile(StaleSummary)}
    /\ lastOp = "none"
    /\ prevOp = "none"
    /\ lastArgs = <<>>
    /\ lastRet = <<>>
    /\ raised = FALSE
    /\ base = <<>>
    /\ saved = <<>>
    /\ CliIdle
    /\ HostIdle
    /\ ConfigIdle
    /\ BackoffIdle
    /\ RaceIdle
    /\ WorldIdle

\* the test run that precedes the retry CLI writes reports/cucumber-report.json
ReportFeature == AppendFeature("report", CliMaxFeatures)

ReportScenario == AppendScenario("report", CliMaxScenarios)

ReportStep == AppendStep("report", CliMaxSteps)

\* the script ends with the given status
Finish(status, messages) ==
    /\ pc' = "done"
    /\ exitStatus' = status
    /\ out' = out \cup messages

\* the CLI starts: the option loop (-r/--retries, -c/--clear, -s/--stats); the
\* behaviour of the runner during this session is fixed from here on
ParseArguments ==
    /\ pc = "report"
    /\ pc' = "main"
    /\ MAX_RETRIES' \in 1..MaxRetriesBound
    /\ oracle' \in Oracles(MAX_RETRIES')
    /\ CLEAR_FAILED' \in BOOLEAN
    /\ SHOW_STATS' \in BOOLEAN
    /\ UNCHANGED <<now, fileVars, opVars, attempt, extracted, runnerLog,
                   retryReports, sleeps, exitStatus, out>>
    /\ UNCHANGED nonRetryVars

\* main up to the call of extract_failed_tests
Main ==
    /\ pc = "main"
    /\ IF SHOW_STATS
       THEN /\ Finish(0, show_retry_stats(summary))
            /\ UNCHANGED <<registry, summary>>
       ELSE LET r == IF CLEAR_FAILED THEN clear_failed_tests(registry, summary)
                     ELSE [registry |-> registry, summary |-> summary, threw |-> FALSE]
            IN  /\ registry' = r.registry
                /\ summary' = r.summary
                /\ IF r.threw
                   THEN Finish(1, {})
                   ELSE /\ pc' = "extract"
                        /\ out' = out \cup {"checking_for_failed_tests"}
                        /\ UNCHANGED exitStatus
    /\ UNCHANGED <<now, reportFile, opVars, MAX_RETRIES, CLEAR_FAILED, SHOW_STATS, attempt,
                   extracted, runnerLog, retryReports, sleeps, oracle>>
    /\ UNCHANGED nonRetryVars

\* if extract_failed_tests; then ... exit 0; fi
ExtractFailedTests ==
    /\ pc = "extract"
    /\ LET r == extract_failed_tests(reportFile, registry, now)
       IN  /\ registry' = r.registry
           /\ extracted' = r.failedTests
           /\ IF r.exited THEN Finish(1, r.out)
              ELSE IF r.rc = 0 THEN Finish(0, r.out \cup {"no_failed_tests_in_last_report"})
              ELSE /\ pc' = "retry"
                   /\ out' = out \cup r.out
                   /\ UNCHANGED exitStatus
    /\ UNCHANGED <<now, reportFile, summary, opVars, MAX_RETRIES, CLEAR_FAILED, SHOW_STATS,
                   attempt, runnerLog, retryReports, sleeps, oracle>>
    /\ UNCHANGED nonRetryVars

\* retry_failed_tests up to the first iteration of its loop
RetryFailedTests ==
    /\ pc = "retry"
    /\ IF ~ existsSync(registry)
       THEN /\ Finish(0, {"no_failed_tests_to_retry", "retry_process_completed"})
            /\ UNCHANGED attempt
       ELSE /\ pc' = "loop"
            /\ attempt' = 1
            /\ out' = out \cup {"retrying"}
            /\ UNCHANGED exitStatus
    /\ UNCHANGED <<now, fileVars, opVars, MAX_RETRIES, CLEAR_FAILED, SHOW_STATS, extracted,
                   runnerLog, retryReports, sleeps, oracle>>
    /\ UNCHANGED nonRetryVars

\* one iteration of for ((attempt=1; attempt<=MAX_RETRIES; attempt++)),
\* including the return to main when the loop ends
RetryAttempt ==
    /\ pc = "loop"
    /\ attempt <= MAX_RETRIES
    /\ \E envOk \in BOOLEAN :
          LET cmd == retry_command(registry, attempt)
              outcome == RunnerOutcome(oracle[Len(runnerLog) + 1], cmd.names)
          IN  IF ~ envOk
              THEN \* node src/config/environment-loader.js failed: set -e
                   /\ Finish(1, {"retry_attempt", "environment_not_loaded"})
                   /\ UNCHANGED <<attempt, runnerLog, retryReports, sleeps>>
              ELSE IF cmd.empty
              THEN /\ Finish(0, {"retry_attempt", "no_tests_to_retry", "retry_process_completed"})
                   /\ UNCHANGED <<attempt, runnerLog, retryReports, sleeps>>
              ELSE /\ runnerLog' = Append(runnerLog, [attempt |-> attempt, names |-> cmd.names])
                   /\ retryReports' =
                         IF existsSync(outcome.report)
                         THEN Append(retryReports, [attempt |-> cmd.format, file |-> outcome.report])
                         ELSE retryReports
                   /\ IF outcome.rc = 0
                      THEN /\ UNCHANGED <<attempt, sleeps>>
                           /\ IF extract_failed_tests_from_retry(outcome.report) = 0
                              THEN Finish(0, {"retry_attempt", "attempt_succeeded",
                                              "all_recovered", "retry_process_completed"})
                              ELSE \* the function returns non-zero: set -e
                                   Finish(1, {"retry_attempt", "attempt_succeeded"})
                      ELSE /\ sleeps' = IF attempt < MAX_RETRIES
                                        THEN Append(sleeps, RETRY_DELAY) ELSE sleeps
                           /\ IF attempt < MAX_RETRIES
                              THEN /\ attempt' = attempt + 1
                                   /\ pc' = "loop"
                                   /\ out' = out \cup {"retry_attempt", "attempt_failed"}
                                   /\ UNCHANGED exitStatus
                              ELSE /\ UNCHANGED attempt
                                   /\ Finish(0, {"retry_attempt", "attempt_failed",
                                                  "retry_process_completed"})
    /\ UNCHANGED <<now, fileVars, opVars, MAX_RETRIES, CLEAR_FAILED, SHOW_STATS, extracted,
                   oracle>>
    /\ UNCHANGED nonRetryVars

Next ==
    \/ ReportFeature
    \/ ReportScenario
    \/ ReportStep
    \/ ParseArguments
    \/ Main
    \/ ExtractFailedTests
    \/ RetryFailedTests
    \/ RetryAttempt

Spec == Init /\ [][Next]_vars

----------------------------------------------------------------------------
(* Specification SpecAdvisor: getRecommendedWorkerCount on a machine of    *)
(* any size within the bounds, after the caller's environment has set some *)
(* of the variables it reads                                               *)

\* the failed-test retry is not in use: no file of its own exists
RetryIdle ==
    /\ now = 1
    /\ reportFile = Absent
    /\ registry = Absent
    /\ summary = Absent
    /\ lastOp = "none"
    /\ prevOp = "none"
    /\ lastArgs = <<>>
    /\ lastRet = <<>>
    /\ raised = FALSE
    /\ base = <<>>
    /\ saved = <<>>
    /\ CliIdle

\* values given to CI, GITHUB_ACTIONS, ...: empty or "true"
IndicatorTexts == {<<>>, <<"t", "r", "u", "e">>}

\* values given to the worker-count variables: "", "x", "0", "-1", "3", "12", "4x"
WorkerTexts ==
    {<<>>, <<"x">>, <<"0">>, <<"-", "1">>, <<"3">>, <<"1", "2">>, <<"4", "x">>}

TextsFor(n) == IF n \in CI_INDICATORS THEN IndicatorTexts ELSE WorkerTexts

\* total memory: every multiple of 0.25 GB within the bound, and 16 GB
TotalMemSizes == {64 * q : q \in 1..MaxTotalQuarters} \cup {4096}

InitAdvisor ==
    /\ pc = "host"
    /\ RetryIdle
    /\ env = [n \in EnvNames |-> Unset]
    /\ cpuCount \in 1..MaxCpu
    /\ totalmem \in TotalMemSizes
    /\ freemem = totalmem
    /\ ConfigIdle
    /\ BackoffIdle
    /\ RaceIdle
    /\ WorldIdle

\* the caller's environment sets one more variable
Setenv ==
    /\ pc = "host"
    /\ Cardinality({n \in EnvNames : env[n].set}) < MaxEnvSet
    /\ \E n \in CI_INDICATORS \cup WORKER_VARS :
          /\ ~ env[n].set
          /\ \E t \in TextsFor(n) : env' = [env EXCEPT ![n] = SetTo(t)]
    /\ UNCHANGED <<pc, now, fileVars, opVars, cliVars, cpuCount, totalmem, freemem, configVars,
                   retryCall, writers, world>>

GetRecommendedWorkerCount ==
    /\ pc = "host"
    /\ pc' = "returned"
    /\ lastOp' = "getRecommendedWorkerCount"
    /\ prevOp' = lastOp
    /\ lastArgs' = <<>>
    /\ lastRet' = getRecommendedWorkerCount(env, cpuCount, totalmem)
    /\ raised' = FALSE
    /\ UNCHANGED <<now, fileVars, base, saved, cliVars, nonRetryVars>>

NextAdvisor == Setenv \/ GetRecommendedWorkerCount

SpecAdvisor == InitAdvisor /\ [][NextAdvisor]_vars

----------------------------------------------------------------------------
(* Specification SpecValidate: validateWorkerConfig for every worker count *)
(* within the bound, on a machine with any number of CPUs and any amount   *)
(* of free memory                                                          *)

InitValidate ==
    /\ pc = "validate"
    /\ RetryIdle
    /\ env = [n \in EnvNames |-> Unset]
    /\ cpuCount \in 1..MaxCpu
    /\ totalmem = 64 * MaxTotalQuarters
    /\ freemem \in 0..totalmem
    /\ ConfigIdle
    /\ BackoffIdle
    /\ RaceIdle
    /\ WorldIdle

ValidateWorkerConfig ==
    /\ pc = "validate"
    /\ pc' = "validated"
    /\ \E workerCount \in 0..MaxWorkerCount :
          /\ lastArgs' = <<workerCount>>
          /\ lastRet' = validateWorkerConfig(workerCount, env, cpuCount, totalmem, freemem)
    /\ lastOp' = "validateWorkerConfig"
    /\ prevOp' = lastOp
    /\ raised' = FALSE
    /\ UNCHANGED <<now, fileVars, base, saved, cliVars, nonRetryVars>>

NextValidate == ValidateWorkerConfig

SpecValidate == InitValidate /\ [][NextValidate]_vars

----------------------------------------------------------------------------
(* EnvironmentManager.mergeConfigs.  A JSON value is null, a primitive, a  *)
(* string, an array or an object; fields holds what the spread syntax      *)
(* {...value} copies: the members of an object, the elements of an array   *)
(* and the characters of a string under their index, nothing otherwise.    *)
(* The members of a nested object are atoms.                               *)

TopKeys == {"test", "users"}

LeafKeys == {"retries", "workers"}

Atoms == {"a", "b"}

\* objects with keys from K and values from V
Maps(K, V) == UNION {[D -> V] : D \in SUBSET K}

IndexMap(seq) ==
    [k \in {ToString(j - 1) : j \in 1..Len(seq)} |->
        seq[CHOOSE j \in 1..Len(seq) : ToString(j - 1) = k]]

JNull == [kind |-> "null", atom |-> "", fields |-> <<>>]

JPrim(a) == [kind |-> "prim", atom |-> a, fields |-> <<>>]

JStr(chars) == [kind |-> "str", atom |-> "", fields |-> IndexMap(chars)]

JArr(items) == [kind |-> "arr", atom |-> "", fields |-> IndexMap(items)]

JObj(members) == [kind |-> "obj", atom |-> "", fields |-> members]

\* the values a top-level key of a configuration file can hold
JsonValues ==
    {JNull} \cup {JPrim(a) : a \in Atoms}
        \cup {JStr(c) : c \in SeqsUpTo(Atoms, MaxArrayLen)}
        \cup {JArr(i) : i \in SeqsUpTo(Atoms, MaxArrayLen)}
        \cup {JObj(m) : m \in Maps(LeafKeys, Atoms)}

\* typeof v === 'object'
TypeofObject(v) == v.kind \in {"obj", "arr", "null"}

\* Array.isArray(v)
IsArray(v) == v.kind = "arr"

\* {...v}
Spread(v) == IF v.kind \in {"obj", "arr", "str"} THEN v.fields ELSE <<>>

\* {...a, ...b} on what the two spreads copy
SpreadBoth(a, b) == [k \in DOMAIN a \cup DOMAIN b |-> IF k \in DOMAIN b THEN b[k] ELSE a[k]]

\* mergeConfigs; merged[key] is undefined when the base has no such key
mergeConfigs(baseConfig, override) ==
    [key \in DOMAIN baseConfig \cup DOMAIN override |->
        IF key \notin DOMAIN override THEN baseConfig[key]
        ELSE IF TypeofObject(override[key]) /\ ~ IsArray(override[key])
        THEN JObj(SpreadBoth(IF key \in DOMAIN baseConfig THEN Spread(baseConfig[key]) ELSE <<>>,
                             Spread(override[key])))
        ELSE override[key]]

----------------------------------------------------------------------------
(* Specification SpecMerge: mergeConfigs applied to every pair of          *)
(* configurations over the two top-level keys                              *)

InitMerge ==
    /\ pc = "merge"
    /\ now = 1
    /\ reportFile = Absent
    /\ registry = Absent
    /\ summary = Absent
    /\ lastOp = "none"
    /\ prevOp = "none"
    /\ lastArgs \in Maps(TopKeys, JsonValues) \X Maps(TopKeys, JsonValues)
    /\ lastRet = <<>>
    /\ raised = FALSE
    /\ base = <<>>
    /\ saved = <<>>
    /\ CliIdle
    /\ HostIdle
    /\ ConfigIdle
    /\ BackoffIdle
    /\ RaceIdle
    /\ WorldIdle

MergeConfigs ==
    /\ pc = "merge"
    /\ pc' = "merged"
    /\ lastOp' = "mergeConfigs"
    /\ prevOp' = lastOp
    /\ lastRet' = mergeConfigs(lastArgs[1], lastArgs[2])
    /\ UNCHANGED <<now, fileVars, lastArgs, raised, base, saved, cliVars, nonRetryVars>>

NextMerge == MergeConfigs

SpecMerge == InitMerge /\ [][NextMerge]_vars

----------------------------------------------------------------------------
(* EnvironmentManager: loadEnvironment and the accessors *)

StagingName == <<"s", "t", "a", "g", "i", "n", "g">>

\* a name for which environments/ holds no file
QaName == <<"q", "a">>

\* the message of the Error that loadEnvironment throws
NOT_FOUND_MESSAGE == "Environment configuration not found for"

\* variant: NODE_ENV is looked at before TEST_ENV
ResolveEnvironment_NodeEnvFirst(environment, e) ==
    OrElse(OrElse(OrElse(environment, e["NODE_ENV"]), e["TEST_ENV"]), SetTo(DevName)).text

\* environment || process.env.TEST_ENV || process.env.NODE_ENV || 'dev'
ResolveEnvironment(environment, e) ==
    OrElse(OrElse(OrElse(environment, e["TEST_ENV"]), e["NODE_ENV"]), SetTo(DevName)).text

\* path.join(__dirname, 'environments', `${env}.json`)
EnvFileOf(files, name) == IF name \in DOMAIN files THEN files[name] ELSE Absent

\* loadConfigFile: what it returns or throws, and the reads it makes
loadConfigFile(file) ==
    IF ~ existsSync(file)
    THEN [threw |-> TRUE, cause |-> "file_not_found", reads |-> 0, value |-> <<>>]
    ELSE IF JsonParse(file).threw
    THEN [threw |-> TRUE, cause |-> "syntax_error", reads |-> 1, value |-> <<>>]
    ELSE [threw |-> FALSE, cause |-> "none", reads |-> 1, value |-> file.data]

\* loadEnvironment on the manager m = [config, currentEnvironment]
loadEnvironment(environment, e, bf, files, m) ==
    LET name == ResolveEnvironment(environment, e)
        baseConfig == loadConfigFile(bf)
        envConfig == loadConfigFile(EnvFileOf(files, name))
        merged == mergeConfigs(baseConfig.value, envConfig.value)
        Caught(cause, reads) ==
            [config |-> m.config, currentEnvironment |-> name, threw |-> TRUE,
             ret |-> [error |-> NOT_FOUND_MESSAGE, env |-> name],
             reads |-> reads, loads |-> 1, logged |-> cause]
    IN  IF baseConfig.threw THEN Caught(baseConfig.cause, baseConfig.reads)
        ELSE IF envConfig.threw
        THEN Caught(envConfig.cause, baseConfig.reads + envConfig.reads)
        ELSE [config |-> [loaded |-> TRUE, value |-> merged], currentEnvironment |-> name,
              threw |-> FALSE, ret |-> merged, reads |-> 2, loads |-> 1, logged |-> "loaded"]

\* variant: the cache is dropped when the environment variables name another
\* environment
getConfig_FollowsEnv(e, bf, files, m) ==
    IF ~ m.config.loaded \/ ResolveEnvironment(Unset, e) # m.currentEnvironment
    THEN loadEnvironment(Unset, e, bf, files, m)
    ELSE [config |-> m.config, currentEnvironment |-> m.currentEnvironment, threw |-> FALSE,
          ret |-> m.config.value, reads |-> 0, loads |-> 0, logged |-> "none"]

\* getConfig
getConfig(e, bf, files, m) ==
    IF ~ m.config.loaded
    THEN loadEnvironment(Unset, e, bf, files, m)
    ELSE [config |-> m.config, currentEnvironment |-> m.currentEnvironment, threw |-> FALSE,
          ret |-> m.config.value, reads |-> 0, loads |-> 0, logged |-> "none"]

\* getTestConfig: this.getConfig().test
getTestConfig(e, bf, files, m) ==
    LET r == getConfig(e, bf, files, m)
    IN  IF r.threw THEN r ELSE [r EXCEPT !.ret = r.ret["test"]]

\* getCurrentEnvironment
getCurrentEnvironment(m) ==
    [config |-> m.config, currentEnvironment |-> m.currentEnvironment, threw |-> FALSE,
     ret |-> m.currentEnvironment, reads |-> 0, loads |-> 0, logged |-> "none"]

----------------------------------------------------------------------------
(* Specification SpecConfig: calls to the EnvironmentManager singleton in  *)
(* any order, over configuration files that exist, are malformed or are    *)
(* missing, while the environment variables may change between calls       *)

BaseContent == "test" :> JObj(("retries" :> "a") @@ ("workers" :> "a"))

EnvContent(name) ==
    ("environment" :> JObj("name" :> (IF name = DevName THEN "dev" ELSE "staging")))
        @@ ("test" :> JObj("retries" :> "b"))

FileStates(content) == {Absent, Malformed, JsonFile(content)}

\* what TEST_ENV and NODE_ENV, and the argument of loadEnvironment, can be
SelectorValues == {Unset, SetTo(<<>>), SetTo(DevName), SetTo(StagingName), SetTo(QaName)}

InitConfig ==
    /\ pc = "config"
    /\ RetryIdle
    /\ HostIdle
    /\ baseFile \in FileStates(BaseContent)
    /\ envFiles \in {[n \in {DevName, StagingName} |-> IF n = DevName THEN d ELSE g] :
                        d \in FileStates(EnvContent(DevName)),
                        g \in FileStates(EnvContent(StagingName))}
    /\ config = [loaded |-> FALSE, value |-> <<>>]
    /\ currentEnvironment = DevName
    /\ calls = 0
    /\ loadCount = 0
    /\ fileReads = 0
    /\ lastLoad = NoLoad
    /\ BackoffIdle
    /\ RaceIdle
    /\ WorldIdle

\* TEST_ENV or NODE_ENV is given another value
SetenvSelector ==
    /\ pc = "config"
    /\ \E n \in ENV_SELECTORS, v \in SelectorValues :
          /\ v # env[n]
          /\ env' = [env EXCEPT ![n] = v]
    /\ UNCHANGED <<pc, now, fileVars, opVars, cliVars, cpuCount, totalmem, freemem, configVars,
                   retryCall, writers, world>>

\* a call to the manager that ends as r says
ManagerCall(op, args, explicit, r) ==
    /\ calls' = calls + 1
    /\ lastOp' = op
    /\ prevOp' = lastOp
    /\ lastArgs' = args
    /\ lastRet' = r.ret
    /\ raised' = r.threw
    /\ config' = r.config
    /\ currentEnvironment' = r.currentEnvironment
    /\ loadCount' = loadCount + r.loads
    /\ fileReads' = fileReads + r.reads
    /\ lastLoad' = IF r.loads = 0 THEN lastLoad
                   ELSE [env |-> r.currentEnvironment, explicit |-> explicit, logged |-> r.logged]
    /\ UNCHANGED <<pc, now, fileVars, base, saved, cliVars, hostVars, baseFile, envFiles,
                   retryCall, writers, world>>

Manager == [config |-> config, currentEnvironment |-> currentEnvironment]

LoadEnvironment ==
    /\ pc = "config"
    /\ calls < MaxCalls
    /\ \E environment \in SelectorValues :
          ManagerCall("loadEnvironment", <<environment>>, TRUE,
                      loadEnvironment(environment, env, baseFile, envFiles, Manager))

GetConfig ==
    /\ pc = "config"
    /\ calls < MaxCalls
    /\ ManagerCall("getConfig", <<>>, FALSE, getConfig(env, baseFile, envFiles, Manager))

GetTestConfig ==
    /\ pc = "config"
    /\ calls < MaxCalls
    /\ ManagerCall("getTestConfig", <<>>, FALSE, getTestConfig(env, baseFile, envFiles, Manager))

GetCurrentEnvironment ==
    /\ pc = "config"
    /\ calls < MaxCalls
    /\ ManagerCall("getCurrentEnvironment", <<>>, FALSE, getCurrentEnvironment(Manager))

NextConfig ==
    \/ SetenvSelector
    \/ LoadEnvironment
    \/ GetConfig
    \/ GetTestConfig
    \/ GetCurrentEnvironment

SpecConfig == InitConfig /\ [][NextConfig]_vars

----------------------------------------------------------------------------
(* The in-process retry helpers: RetryHelpers.retryWithBackoff,            *)
(* WaitHelpers.waitWithBackoff and ElementHelpers.smartClick.  Each call   *)
(* is a loop "for (attempt = 1; attempt <= ceiling; attempt++)" whose body *)
(* awaits the caller's operation; one action is one pass through the loop, *)
(* and the operation's outcome is the environment's choice.                *)

Helpers == {"retryWithBackoff", "waitWithBackoff", "smartClick"}

\* what an operation can throw
Errors == {"e1", "e2"}

\* baseDelay / initialDelay in ms: the default and a shorter one
BaseDelays == {100, 1000}

\* backoffFactor of waitWithBackoff (its default)
backoffFactor == 2

Returns(what) == [kind |-> "returns", what |-> what]
Throws(what) == [kind |-> "throws", what |-> what]

\* the outcomes of one invocation: operation() returns a value or throws,
\* condition() returns true or false or throws, the click succeeds or throws
OutcomesOf(helper) ==
    {Throws(e) : e \in Errors} \cup
    (IF helper = "waitWithBackoff" THEN {Returns("true"), Returns("false")}
     ELSE IF helper = "retryWithBackoff" THEN {Returns("success")}
     ELSE {Returns("clicked")})

\* the promise resolves with a value, or rejects with a thrown value
Resolved(what) == [kind |-> "value", what |-> what, count |-> 0, cause |-> ""]
Rejected(what) == [kind |-> "error", what |-> what, count |-> 0, cause |-> ""]
\* new Error(`Condition not met after ${maxAttempts} attempts`)
ConditionNotMet(maxAttempts) ==
    [kind |-> "error", what |-> "Condition not met", count |-> maxAttempts, cause |-> ""]
\* new Error(`Failed to click element after ${retries} attempts: ${error}`)
FailedToClick(retries, error) ==
    [kind |-> "error", what |-> "Failed to click element", count |-> retries, cause |-> error]

Settle(c, state, result) == [c EXCEPT !.state = state, !.result = result]

\* entry of a helper: the parameters, attempt = 1, delay = initialDelay
Enter(helper, max, baseDelay) ==
    [NoCall EXCEPT !.helper = helper, !.max = max, !.baseDelay = baseDelay,
                   !.delay = baseDelay, !.attempt = 1, !.state = "running"]

\* the same delay before every retry: baseDelay, without the power of two
retryWithBackoff_FlatDelay(c, outcome) ==
    IF c.attempt > c.max
    THEN Settle(c, "rejected", Rejected(c.lastError))
    ELSE LET invoked == [c EXCEPT !.log = Append(@, outcome)]
         IN  IF outcome.kind = "returns"
             THEN Settle(invoked, "resolved", Resolved(outcome.what))
             ELSE LET caught == [invoked EXCEPT !.lastError = outcome.what]
                  IN  IF c.attempt = c.max
                      THEN Settle(caught, "rejected", Rejected(caught.lastError))
                      ELSE [caught EXCEPT !.delays = Append(@, c.baseDelay),
                                          !.attempt = @ + 1]

\* a loop whose test is "attempt <= maxRetries + 1": one attempt too many
retryWithBackoff_OneMore(c, outcome) ==
    IF c.attempt > c.max + 1
    THEN Settle(c, "rejected", Rejected(c.lastError))
    ELSE LET invoked == [c EXCEPT !.log = Append(@, outcome)]
         IN  IF outcome.kind = "returns"
             THEN Settle(invoked, "resolved", Resolved(outcome.what))
             ELSE LET caught == [invoked EXCEPT !.lastError = outcome.what]
                  IN  IF c.attempt = c.max + 1
                      THEN Settle(caught, "rejected", Rejected(caught.lastError))
                      ELSE [caught EXCEPT
                               !.delays = Append(@, c.baseDelay * 2 ^ (c.attempt - 1)),
                               !.attempt = @ + 1]

\* one pass of retryWithBackoff: the loop test, then operation() and the
\* catch block; past the loop "throw lastError!"
retryWithBackoff(c, outcome) ==
    IF c.attempt > c.max
    THEN Settle(c, "rejected", Rejected(c.lastError))
    ELSE LET invoked == [c EXCEPT !.log = Append(@, outcome)]
         IN  IF outcome.kind = "returns"
             THEN Settle(invoked, "resolved", Resolved(outcome.what))
             ELSE LET caught == [invoked EXCEPT !.lastError = outcome.what]
                  IN  IF c.attempt = c.max
                      THEN Settle(caught, "rejected", Rejected(caught.lastError))
                      ELSE [caught EXCEPT
                               !.delays = Append(@, c.baseDelay * 2 ^ (c.attempt - 1)),
                               !.attempt = @ + 1]

\* one pass of waitWithBackoff: the loop test, then condition(); nothing
\* catches what condition() throws; past the loop the fixed error
waitWithBackoff(c, outcome) ==
    IF c.attempt > c.max
    THEN Settle(c, "rejected", ConditionNotMet(c.max))
    ELSE LET invoked == [c EXCEPT !.log = Append(@, outcome)]
         IN  IF outcome.kind = "throws"
             THEN Settle(invoked, "rejected", Rejected(outcome.what))
             ELSE IF outcome.what = "true"
             THEN Settle(invoked, "resolved", Resolved("undefined"))
             ELSE IF c.attempt < c.max
             THEN [invoked EXCEPT !.delays = Append(@, c.delay),
                                  !.delay = @ * backoffFactor,
                                  !.attempt = @ + 1]
             ELSE Settle([invoked EXCEPT !.attempt = @ + 1], "rejected",
                         ConditionNotMet(c.max))

\* one pass of smartClick: the loop test, then waitFor and click and the
\* catch block; past the loop the function returns
smartClick(c, outcome) ==
    IF c.attempt > c.max
    THEN Settle(c, "resolved", Resolved("undefined"))
    ELSE LET invoked == [c EXCEPT !.log = Append(@, outcome)]
         IN  IF outcome.kind = "returns"
             THEN Settle(invoked, "resolved", Resolved("undefined"))
             ELSE IF c.attempt = c.max
             THEN Settle(invoked, "rejected", FailedToClick(c.max, outcome.what))
             ELSE [invoked EXCEPT !.delays = Append(@, 1000), !.attempt = @ + 1]

InitBackoff ==
    /\ pc = "backoff"
    /\ RetryIdle
    /\ HostIdle
    /\ ConfigIdle
    /\ BackoffIdle
    /\ RaceIdle
    /\ WorldIdle

\* a helper is called with a ceiling within the bound
CallHelper ==
    /\ pc = "backoff"
    /\ retryCall.state # "running"
    /\ \E helper \in Helpers, max \in 0..MaxAttemptsBound, baseDelay \in BaseDelays :
          retryCall' = Enter(helper, max,
                             IF helper = "smartClick" THEN 1000 ELSE baseDelay)
    /\ UNCHANGED <<pc, now, fileVars, opVars, cliVars, hostVars, configVars, writers, world>>

\* the next pass through the loop of the running call
RetryWithBackoff ==
    /\ pc = "backoff"
    /\ retryCall.helper = "retryWithBackoff"
    /\ retryCall.state = "running"
    /\ \E outcome \in OutcomesOf("retryWithBackoff") : retryCall' = retryWithBackoff(retryCall, outcome)
    /\ UNCHANGED <<pc, now, fileVars, opVars, cliVars, hostVars, configVars, writers, world>>

WaitWithBackoff ==
    /\ pc = "backoff"
    /\ retryCall.helper = "waitWithBackoff"
    /\ retryCall.state = "running"
    /\ \E outcome \in OutcomesOf("waitWithBackoff") : retryCall' = waitWithBackoff(retryCall, outcome)
    /\ UNCHANGED <<pc, now, fileVars, opVars, cliVars, hostVars, configVars, writers, world>>

SmartClick ==
    /\ pc = "backoff"
    /\ retryCall.helper = "smartClick"
    /\ retryCall.state = "running"
    /\ \E outcome \in OutcomesOf("smartClick") : retryCall' = smartClick(retryCall, outcome)
    /\ UNCHANGED <<pc, now, fileVars, opVars, cliVars, hostVars, configVars, writers, world>>

NextBackoff ==
    \/ CallHelper
    \/ RetryWithBackoff
    \/ WaitWithBackoff
    \/ SmartClick

SpecBackoff == InitBackoff /\ [][NextBackoff]_vars

----------------------------------------------------------------------------
(* The runner invocation of a retry: the --name option built from the      *)
(* registry by retry_failed_tests (parallel-test.sh) and by                *)
(* RetryHelpers.generateRetryCommand.  Scenario names are texts here, so   *)
(* that one name can occur inside another.                                 *)

NameChars == {"a", "b"}

\* the scenario names of the feature files: every text within the bound
ScenarioNames == UNION {SeqsOfLen(NameChars, n) : n \in 1..MaxNameLen}

\* Array.prototype.join
RECURSIVE Join(_, _)
Join(texts, sep) ==
    IF Len(texts) = 0 THEN <<>>
    ELSE IF Len(texts) = 1 THEN texts[1]
    ELSE texts[1] \o sep \o Join(Tail(texts), sep)

\* the alternatives of a regular expression without groups: the pieces
\* between its "|"
RECURSIVE Alternatives(_)
Alternatives(pattern) ==
    IF \A i \in 1..Len(pattern) : pattern[i] # "|" THEN {pattern}
    ELSE LET i == CHOOSE k \in 1..Len(pattern) :
                      pattern[k] = "|" /\ \A j \in 1..(k - 1) : pattern[j] # "|"
         IN  {SubSeq(pattern, 1, i - 1)}
                 \cup Alternatives(SubSeq(pattern, i + 1, Len(pattern)))

Occurs(piece, text) ==
    \E i \in 0..(Len(text) - Len(piece)) : SubSeq(text, i + 1, i + Len(piece)) = piece

\* --name <pattern>: the scenarios whose name the pattern matches somewhere
\* (the option is an unanchored regular expression; the patterns built here
\* hold letters, blanks and "|" only)
SelectedBy(pattern) ==
    {name \in ScenarioNames : \E alt \in Alternatives(pattern) : Occurs(alt, name)}

NoInvocation == [built |-> FALSE, pattern |-> <<>>, selected |-> {}]

Invocation(pattern) == [built |-> TRUE, pattern |-> pattern, selected |-> SelectedBy(pattern)]

\* the command line retry_failed_tests executes in an attempt: retry_command
\* with the names joined by "|", or nothing at all
ShellInvocation(reg, k) ==
    LET cmd == retry_command(reg, k)
    IN  IF cmd.empty THEN NoInvocation ELSE Invocation(Join(cmd.names, <<"|">>))

\* generateRetryCommand: each name quoted, joined with blanks, then every
\* quote removed; null when the registry is empty
generateRetryCommand(reg) ==
    LET failedTests == getFailedTests(reg)
        names == [i \in 1..Len(failedTests) |-> failedTests[i].scenarioName]
    IN  IF Len(failedTests) = 0 THEN NoInvocation
        ELSE Invocation(Join(names, <<" ">>))

RegistryNames(reg) ==
    LET failedTests == getFailedTests(reg)
    IN  {failedTests[i].scenarioName : i \in 1..Len(failedTests)}

InitSelect ==
    /\ pc = "select"
    /\ now = 1
    /\ reportFile = Absent
    /\ \E names \in SeqsUpTo(ScenarioNames, MaxList) :
          registry = IF names = <<>> THEN Absent
                     ELSE JsonFile([i \in 1..Len(names) |-> MkTest(names[i], "e1", 0)])
    /\ summary = Absent
    /\ lastOp = "none"
    /\ prevOp = "none"
    /\ lastArgs = <<>>
    /\ lastRet = NoInvocation
    /\ raised = FALSE
    /\ base = <<>>
    /\ saved = <<>>
    /\ CliIdle
    /\ HostIdle
    /\ ConfigIdle
    /\ BackoffIdle
    /\ RaceIdle
    /\ WorldIdle

\* the invocation an attempt of retry_failed_tests builds
BuildRetryCommand ==
    /\ pc = "select"
    /\ \E k \in 1..MaxRetriesBound :
          /\ lastArgs' = <<k>>
          /\ lastRet' = ShellInvocation(registry, k)
    /\ lastOp' = "retry_command"
    /\ prevOp' = lastOp
    /\ UNCHANGED <<pc, now, fileVars, raised, base, saved, cliVars, nonRetryVars>>

GenerateRetryCommand ==
    /\ pc = "select"
    /\ lastArgs' = <<>>
    /\ lastRet' = generateRetryCommand(registry)
    /\ lastOp' = "generateRetryCommand"
    /\ prevOp' = lastOp
    /\ UNCHANGED <<pc, now, fileVars, raised, base, saved, cliVars, nonRetryVars>>

NextSelect ==
    \/ BuildRetryCommand
    \/ GenerateRetryCommand

SpecSelect == InitSelect /\ [][NextSelect]_vars

----------------------------------------------------------------------------
(* Two processes in saveFailedTest over the same working directory.  The   *)
(* function is synchronous inside one process; another process can run     *)
(* between its readFileSync and its writeFileSync.                         *)

\* the record a process saves: its scenario, stamped with its own time
TestOf(w, name) == MkTest(name, "e1", IF w = "w1" THEN 1 ELSE 2)

\* variant: the list starts empty instead of being loaded
LoadAndPush_Fresh(reg, failedTest) == <<failedTest>>

\* const existingFailed = this.getFailedTests(); existingFailed.push(failedTest)
LoadAndPush(reg, failedTest) == Append(getFailedTests(reg), failedTest)

InitRace ==
    /\ pc = "race"
    /\ now = 1
    /\ reportFile = Absent
    /\ registry \in {Absent, Malformed, JsonFile(<<>>), JsonFile(<<OldTest>>)}
    /\ summary = Absent
    /\ lastOp = "none"
    /\ prevOp = "none"
    /\ lastArgs = <<>>
    /\ lastRet = <<>>
    /\ raised = FALSE
    /\ base = getFailedTests(registry)
    /\ saved = <<>>
    /\ CliIdle
    /\ HostIdle
    /\ ConfigIdle
    /\ BackoffIdle
    /\ RaceIdle
    /\ WorldIdle

\* a process enters saveFailedTest, loads the list and pushes its record
LoadFailedTests ==
    /\ pc = "race"
    /\ \E w \in WriterIds, name \in Names :
          /\ writers[w].pc = "idle"
          /\ writers' = [writers EXCEPT ![w] =
                            [pc |-> "loaded", failedTest |-> TestOf(w, name),
                             existingFailed |-> LoadAndPush(registry, TestOf(w, name))]]
          /\ lastArgs' = <<w>>
          /\ saved' = Append(saved, TestOf(w, name))
    /\ lastOp' = "getFailedTests"
    /\ prevOp' = lastOp
    /\ UNCHANGED <<pc, now, fileVars, lastRet, raised, base, cliVars, hostVars, configVars,
                   retryCall, world>>

\* the process rewrites the file with its list and leaves saveFailedTest
RewriteRegistry ==
    /\ pc = "race"
    /\ \E w \in WriterIds :
          /\ writers[w].pc = "loaded"
          /\ registry' = JsonWrite(writers[w].existingFailed)
          /\ writers' = [writers EXCEPT ![w].pc = "done"]
          /\ lastArgs' = <<w>>
    /\ lastOp' = "writeFileSync"
    /\ prevOp' = lastOp
    /\ UNCHANGED <<pc, now, reportFile, summary, lastRet, raised, base, saved, cliVars,
                   hostVars, configVars, retryCall, world>>

NextRace ==
    \/ LoadFailedTests
    \/ RewriteRegistry

SpecRace == InitRace /\ [][NextRace]_vars

----------------------------------------------------------------------------
(* The cloud-capable CustomWorld (world-azure): init() in the Before hook  *)
(* and cleanup() in the After hook of a scenario                           *)

TrueText == <<"t", "r", "u", "e">>

FalseText == <<"f", "a", "l", "s", "e">>

\* values of PLAYWRIGHT_SERVICE_URL: a text is a sequence of URL parts
ServiceUrls == {<<"wss://service">>, <<"wss://service", "?os=", "windows">>}

\* wsEndpoint.includes('?os=')
IncludesOs(text) == \E i \in 1..Len(text) : text[i] = "?os="

\* what chromium.connect, chromium.launch and browser.newContext / newPage do
Outcomes == [connect : BOOLEAN, launch : BOOLEAN, newContext : BOOLEAN]

\* chromium.launch({ headless: HEADLESS === 'true' || CI === 'true', ... })
\* followed by the rest of init
Launch(w, e, o) ==
    LET headless == e["HEADLESS"] = SetTo(TrueText) \/ e["CI"] = SetTo(TrueText)
    IN  IF ~ o.launch THEN [w EXCEPT !.threw = TRUE]
        ELSE [w EXCEPT !.browser = "local", !.localBrowser = "running",
                       !.headless = headless]

\* newContext and newPage on this.browser
OpenPage(w, o) ==
    IF w.threw THEN w
    ELSE IF ~ o.newContext THEN [w EXCEPT !.threw = TRUE]
    ELSE [w EXCEPT !.context = TRUE, !.page = TRUE, !.contextOpen = TRUE, !.pageOpen = TRUE]

\* CustomWorld.init
init(w, e, o) ==
    LET url == e["PLAYWRIGHT_SERVICE_URL"]
        wsEndpoint == IF IncludesOs(url.text) THEN url.text
                      ELSE url.text \o <<"?os=", "linux">>
        asked == [w EXCEPT !.wsEndpoint = wsEndpoint,
                           !.authorization = Truthy(e["PLAYWRIGHT_SERVICE_ACCESS_TOKEN"])]
    IN  IF Truthy(url)
        THEN IF o.connect
             THEN OpenPage([asked EXCEPT !.browser = "cloud", !.cloudBrowser = "running"], o)
             ELSE OpenPage(Launch(asked, e, o), o)
        ELSE OpenPage(Launch(w, e, o), o)

\* CustomWorld.cleanup
cleanup(w, e) ==
    LET closeBrowser == w.browser # "undefined" /\ ~ Truthy(e["PLAYWRIGHT_SERVICE_URL"])
    IN  [w EXCEPT !.pageOpen = IF w.page THEN FALSE ELSE @,
                  !.contextOpen = IF w.context THEN FALSE ELSE @,
                  !.localBrowser = IF closeBrowser /\ w.browser = "local" THEN "closed" ELSE @,
                  !.cloudBrowser = IF closeBrowser /\ w.browser = "cloud" THEN "closed" ELSE @]

InitWorld ==
    /\ pc = "before"
    /\ RetryIdle
    /\ \E url \in {Unset, SetTo(<<>>)} \cup {SetTo(u) : u \in ServiceUrls},
          token \in {Unset, SetTo(TrueText)},
          headless \in {Unset, SetTo(TrueText), SetTo(FalseText)},
          ci \in {Unset, SetTo(TrueText)} :
          env = [n \in EnvNames |->
                    IF n = "PLAYWRIGHT_SERVICE_URL" THEN url
                    ELSE IF n = "PLAYWRIGHT_SERVICE_ACCESS_TOKEN" THEN token
                    ELSE IF n = "HEADLESS" THEN headless
                    ELSE IF n = "CI" THEN ci
                    ELSE Unset]
    /\ cpuCount = 8
    /\ totalmem = 4096
    /\ freemem = 4096
    /\ ConfigIdle
    /\ BackoffIdle
    /\ RaceIdle
    /\ WorldIdle

\* Before({ timeout: 60000 }, ...): await this.init()
BeforeHook ==
    /\ pc = "before"
    /\ pc' = "scenario"
    /\ \E o \in Outcomes : world' = init(world, env, o)
    /\ lastOp' = "init"
    /\ prevOp' = lastOp
    /\ UNCHANGED <<now, fileVars, lastArgs, lastRet, raised, base, saved, cliVars, hostVars,
                   configVars, retryCall, writers>>

\* After(...): await this.cleanup(); it runs whether or not the Before hook
\* and the steps passed
AfterHook ==
    /\ pc = "scenario"
    /\ pc' = "done"
    /\ world' = cleanup(world, env)
    /\ lastOp' = "cleanup"
    /\ prevOp' = lastOp
    /\ UNCHANGED <<now, fileVars, lastArgs, lastRet, raised, base, saved, cliVars, hostVars,
                   configVars, retryCall, writers>>

NextWorld ==
    \/ BeforeHook
    \/ AfterHook

SpecWorld == InitWorld /\ [][NextWorld]_vars

----------------------------------------------------------------------------
(* ParallelHelpers.splitScenariosAcrossWorkers *)

\* index % workerCount for index >= 0 and workerCount # 0: the sign of the
\* divisor does not matter
Remainder(index, workerCount) ==
    index % (IF workerCount < 0 THEN 0 - workerCount ELSE workerCount)

\* the scenarios pushed to chunks[k], in the order forEach visits them
\* (index is 0-based; with workerCount 0 the worker index is NaN and no chunk
\* is found)
RECURSIVE ChunkOf(_, _, _, _)
ChunkOf(scenarios, workerCount, k, index) ==
    IF index >= Len(scenarios) THEN <<>>
    ELSE (IF workerCount # 0 /\ Remainder(index, workerCount) = k
          THEN <<scenarios[index + 1]>> ELSE <<>>)
             \o ChunkOf(scenarios, workerCount, k, index + 1)

\* chunks.filter(chunk => chunk.length > 0) over chunks[k], k = from..length-1
RECURSIVE NonEmptyChunks(_, _, _, _)
NonEmptyChunks(scenarios, workerCount, length, from) ==
    IF from >= length THEN <<>>
    ELSE LET chunk == ChunkOf(scenarios, workerCount, from, 0)
         IN  (IF Len(chunk) > 0 THEN <<chunk>> ELSE <<>>)
                 \o NonEmptyChunks(scenarios, workerCount, length, from + 1)

\* Array.from({ length: workerCount }, () => []) has no element when
\* workerCount <= 0; a scenario whose chunk is undefined is skipped
splitScenariosAcrossWorkers(scenarios, workerCount) ==
    LET length == IF workerCount > 0 THEN workerCount ELSE 0
    IN  NonEmptyChunks(scenarios, workerCount, length, 0)

InitSplit ==
    /\ pc = "split"
    /\ now = 1
    /\ reportFile = Absent
    /\ registry = Absent
    /\ summary = Absent
    /\ lastOp = "none"
    /\ prevOp = "none"
    /\ lastArgs \in SeqsUpTo(Names, MaxList) \X ((0 - 1)..MaxSplitWorkers)
    /\ lastRet = <<>>
    /\ raised = FALSE
    /\ base = <<>>
    /\ saved = <<>>
    /\ CliIdle
    /\ HostIdle
    /\ ConfigIdle
    /\ BackoffIdle
    /\ RaceIdle
    /\ WorldIdle

SplitScenariosAcrossWorkers ==
    /\ pc = "split"
    /\ pc' = "returned"
    /\ lastOp' = "splitScenariosAcrossWorkers"
    /\ prevOp' = lastOp
    /\ lastRet' = splitScenariosAcrossWorkers(lastArgs[1], lastArgs[2])
    /\ UNCHANGED <<now, fileVars, lastArgs, raised, base, saved, cliVars, nonRetryVars>>

NextSplit == SplitScenariosAcrossWorkers

SpecSplit == InitSplit /\ [][NextSplit]_vars

----------------------------------------------------------------------------
(* Properties of parseFailedTestsFromReport (specification SpecParse) *)

\* all scenarios of a report in document order
AllScenarios(report) ==
    LET RECURSIVE Flat(_)
        Flat(i) == IF i > Len(report) THEN <<>> ELSE report[i].elements \o Flat(i + 1)
    IN  Flat(1)

StepFailed(sc, k) == sc.steps[k].status = "failed"

FailingIdx(scs) == {i \in 1..Len(scs) : \E k \in 1..Len(scs[i].steps) : StepFailed(scs[i], k)}

\* the j-th smallest element of a set of numbers
NthOf(S, j) == CHOOSE i \in S : Cardinality({x \in S : x < i}) = j - 1

FirstFailedMessage(sc) ==
    LET k == CHOOSE n \in 1..Len(sc.steps) :
                StepFailed(sc, n) /\ \A m \in 1..(n - 1) : ~ StepFailed(sc, m)
    IN  sc.steps[k].error_message

ParsedJson == pc = "parsed" /\ reportFile.kind = "json"

\* one record per scenario with a failed step, in document order, attempt 1
OnePerFailedScenario ==
    LET scs == AllScenarios(reportFile.data)
        idx == FailingIdx(scs)
    IN  /\ Len(lastRet) = Cardinality(idx)
        /\ \A j \in 1..Len(lastRet) :
              /\ lastRet[j].scenarioName = scs[NthOf(idx, j)].name
              /\ lastRet[j].attempt = 1

\* C2 as stated: for every report, parseFailedTestsFromReport returns exactly
\* one FailedTest per scenario that has a failed step, in document order, with
\* attempt 1 and with the error message of the scenario's first failing step.
C2_ErrorIsFirstFailedMessage ==
    ParsedJson =>
        /\ OnePerFailedScenario
        /\ LET scs == AllScenarios(reportFile.data)
           IN  \A j \in 1..Len(lastRet) :
                  lastRet[j].error = FirstFailedMessage(scs[NthOf(FailingIdx(scs), j)])

\* C2 amended: as above, except that the error is the first failing step's
\* message only when that message is present and non-empty, and the literal
\* "Unknown error" otherwise.
C2_OnePerFailedScenario ==
    ParsedJson =>
        /\ OnePerFailedScenario
        /\ LET scs == AllScenarios(reportFile.data)
           IN  \A j \in 1..Len(lastRet) :
                  LET msg == FirstFailedMessage(scs[NthOf(FailingIdx(scs), j)])
                  IN  lastRet[j].error = IF msg = "" THEN "Unknown error" ELSE msg

\* a report of two scenarios: one with two failing steps carrying different
\* messages, one without any failed step; exactly one record comes back
C2_Witness ==
    /\ ParsedJson
    /\ Len(lastRet) = 1
    /\ LET scs == AllScenarios(reportFile.data)
       IN  /\ Len(scs) = 2
           /\ \E i \in 1..2 :
                 /\ Len(scs[i].steps) = 2
                 /\ StepFailed(scs[i], 1) /\ StepFailed(scs[i], 2)
                 /\ scs[i].steps[1].error_message # scs[i].steps[2].error_message
                 /\ scs[i].steps[1].error_message # ""
           /\ \E i \in 1..2 : Len(scs[i].steps) = 1 /\ scs[i].steps[1].status = "undefined"

----------------
(* Properties of the retry CLI (specification Spec) *)

\* no step of any scenario of the report has status "failed"
NoFailedStep(report) ==
    LET scs == AllScenarios(report)
    IN  \A i \in 1..Len(scs) : \A k \in 1..Len(scs[i].steps) : ~ StepFailed(scs[i], k)

CleanReport == reportFile.kind = "json" /\ NoFailedStep(reportFile.data)

SessionDone == pc = "done" /\ ~ SHOW_STATS

\* C1: over a report without any failed step the session never enters the
\* retry loop and never invokes the runner, extraction finds nothing and the
\* script ends with exit status 0.
C1_NoFailuresNoRetry ==
    CleanReport =>
        /\ pc \notin {"retry", "loop"}
        /\ attempt = 0
        /\ runnerLog = <<>>
        /\ SessionDone =>
              (exitStatus = 0 /\ extracted = <<>> /\ "no_failed_tests_found" \in out)

\* a finished session over a report whose scenario has no failed step but an
\* "undefined" one, with a registry left by an earlier run
C1_Witness ==
    /\ SessionDone
    /\ CleanReport
    /\ Len(AllScenarios(reportFile.data)) >= 1
    /\ LET sc == AllScenarios(reportFile.data)[1]
       IN  Len(sc.steps) > 0 /\ sc.steps[1].status = "undefined"
    /\ registry = JsonFile(<<OldTest>>)
    /\ exitStatus = 0

\* the session went through retry_failed_tests and returned to main
SessionCompleted == SessionDone /\ "retry_process_completed" \in out

FailuresFound == Len(extracted) > 0

\* number of the first runner invocation that leaves a report without failures
\* (MAX_RETRIES + 1 when there is none)
FirstRecovery ==
    LET rec == {i \in 1..MAX_RETRIES : oracle[i] = "recovered"}
    IN  IF rec = {} THEN MAX_RETRIES + 1 ELSE CHOOSE i \in rec : \A j \in rec : i <= j

\* C3: when attempt k < MAX_RETRIES is the first whose report shows no failing
\* scenario, the session runs attempts 1..k and stops: k runner invocations,
\* one sleep between consecutive attempts and none after attempt k.
C3_StopsAtFirstRecovery ==
    (SessionCompleted /\ FailuresFound /\ FirstRecovery < MAX_RETRIES) =>
        (Len(runnerLog) = FirstRecovery /\ Len(sleeps) = FirstRecovery - 1)

\* C4: attempts are numbered 1, 2, ..., k with k <= MAX_RETRIES and
\* retry-<k>.json is there before attempt k+1; when every attempt still shows
\* a failing scenario exactly MAX_RETRIES attempts are run.
C4_ExhaustsAllAttempts ==
    /\ Len(runnerLog) <= MAX_RETRIES
    /\ \A i \in 1..Len(runnerLog) : runnerLog[i].attempt = i
    /\ \A i \in 1..Len(retryReports) : retryReports[i].attempt <= Len(runnerLog)
    /\ (SessionCompleted /\ FailuresFound /\ \A i \in 1..MAX_RETRIES : oracle[i] = "failing") =>
          Len(runnerLog) = MAX_RETRIES

\* every failure found was recovered: the last attempt run left a report
\* without failed steps
AllRecovered ==
    /\ Len(retryReports) > 0
    /\ retryReports[Len(retryReports)].attempt = Len(runnerLog)
    /\ extract_failed_tests_from_retry(retryReports[Len(retryReports)].file) = 0

\* C5: over a well-formed report the exit status is zero exactly when no
\* failures were found or every failure was recovered, and non-zero when a
\* scenario is still failing after the last attempt that was run.
C5_ExitStatusReflectsOutcome ==
    (SessionDone /\ reportFile.kind = "json") =>
        (exitStatus = 0 <=> ((CleanReport /\ ~ FailuresFound) \/ (FailuresFound /\ AllRecovered)))

\* C6: after a session that ran at least one attempt the summary file exists
\* and describes that session (written now, with its original failure count).
C6_SummaryDescribesSession ==
    (SessionCompleted /\ FailuresFound /\ attempt >= 1) =>
        /\ summary.kind = "json"
        /\ summary.data.timestamp = now
        /\ summary.data.originalFailures = Len(getFailedTests(registry))

\* C10: a missing or malformed report ends the session with a reported error
\* and a non-zero exit status, without entering the retry loop.
C10_ReportErrorsAreDistinct ==
    (SessionDone /\ reportFile.kind \in {"absent", "malformed"}) =>
        /\ exitStatus # 0
        /\ attempt = 0
        /\ out \cap {"report_not_found", "error_parsing_report"} # {}

----------------
(* Properties of generateRetryReport (specification SpecSummary) *)

\* C7: for N > 0 original failures and 0 <= M <= N still-failing results the
\* summary holds originalFailures = N, retriedTests = N, stillFailing = M,
\* recovered = N - M and successRate = (N - M) / N * 100 rounded to two
\* decimals (the hundredths h nearest to 10000 * (N - M) / N, halves up).
C7_SummaryArithmetic ==
    LET N == Len(lastArgs[1])
        M == Len(lastArgs[2])
        q == (10000 * (N - M)) \div N
    IN  (pc = "returned" /\ N > 0 /\ M <= N) =>
            /\ summary.kind = "json"
            /\ summary.data.originalFailures = N
            /\ summary.data.retriedTests = N
            /\ summary.data.stillFailing = M
            /\ summary.data.recovered = N - M
            /\ \E h \in {q, q + 1} :
                  /\ 0 - N < 2 * N * h - 20000 * (N - M)
                  /\ 2 * N * h - 20000 * (N - M) <= N
                  /\ summary.data.successRate = FormatHundredths(h)

\* 3 original failures, 1 still failing: the rate is rounded up to "66.67"
C7_Witness ==
    /\ pc = "returned"
    /\ Len(lastArgs[1]) = 3
    /\ Len(lastArgs[2]) = 1
    /\ summary.data.recovered = 2
    /\ summary.data.successRate = "66.67"

----------------------------------------------------------------------------
(* Properties of the registry operations (specification SpecHelpers) *)

ClearOps == {"clearFailedTests", "clear_failed_tests"}

\* C8 as stated: after clear (either implementation) no error was raised and
\* neither the registry file nor the summary file exists.
C8_ClearRemovesBothFiles ==
    lastOp \in ClearOps => (~ raised /\ registry = Absent /\ summary = Absent)

\* C8 amended: a clear call raises no error and leaves no registry file,
\* from every state of the two files and also right after another clear;
\* the CLI's clear_failed_tests leaves no summary file either, while
\* RetryHelpers.clearFailedTests leaves the summary file as it was.
C8_ClearIdempotent ==
    [][ /\ lastOp' \in ClearOps => (~ raised' /\ registry' = Absent)
        /\ lastOp' = "clear_failed_tests" => summary' = Absent
        /\ lastOp' = "clearFailedTests" => summary' = summary
        /\ (lastOp \in ClearOps /\ lastOp' \in ClearOps) => registry' = registry
      ]_vars

\* clearFailedTests called twice in a row on a state where the summary exists
C8_Witness ==
    /\ prevOp = "clearFailedTests"
    /\ lastOp = "clearFailedTests"
    /\ ~ raised
    /\ registry = Absent
    /\ summary # Absent

\* C9: with no clear in between, the registry read back by getFailedTests is
\* what it was before the saveFailedTest calls followed by their arguments in
\* call order, duplicates included.
C9_SaveAppends ==
    /\ getFailedTests(registry) = base \o saved
    /\ lastOp = "getFailedTests" => lastRet = base \o saved

\* an earlier entry, then the same scenario saved twice, then read back
C9_Witness ==
    /\ lastOp = "getFailedTests"
    /\ Len(base) = 1
    /\ Len(saved) = 2
    /\ saved[1] = saved[2]
    /\ Len(lastRet) = 3

----------------------------------------------------------------------------
(* Properties of the worker-count advisor (specification SpecAdvisor) *)

Recommended == pc = "returned" /\ lastOp = "getRecommendedWorkerCount"

\* a CI indicator variable is in the environment / has a non-empty value
IndicatorPresent == \E n \in CI_INDICATORS : env[n].set

IndicatorNonEmpty == \E n \in CI_INDICATORS : env[n].set /\ env[n].text # <<>>

\* the override in effect: CUCUMBER_WORKERS unless unset or empty, else
\* PLAYWRIGHT_WORKERS
Override ==
    IF env["CUCUMBER_WORKERS"].set /\ env["CUCUMBER_WORKERS"].text # <<>>
    THEN env["CUCUMBER_WORKERS"] ELSE env["PLAYWRIGHT_WORKERS"]

OverrideGiven == Override.set /\ Override.text # <<>>

\* min(max(1, floor(cpuCount * 0.5)), floor(totalMemoryGB / 0.5), 8)
Computed ==
    LET half == IF cpuCount \div 2 >= 1 THEN cpuCount \div 2 ELSE 1
        candidates == {half, totalmem \div 128, 8}
    IN  CHOOSE m \in candidates : \A x \in candidates : m <= x

\* C11: getRecommendedWorkerCount returns an integer >= 1 for every
\* combination of CPU count, total memory, CI indicators and worker variables.
C11_AtLeastOneWorker ==
    Recommended => (~ lastRet.nan /\ lastRet.val >= 1)

\* C12: outside CI and without an override the recommended count equals
\* min(max(1, floor(cpuCount * 0.5)), floor(totalMemoryGB / 0.5), 8), hence
\* is at most 8 and at most max(1, floor(cpuCount / 2)).
C12_ComputedValue ==
    (Recommended /\ ~ IndicatorNonEmpty /\ ~ OverrideGiven) =>
        /\ lastRet = Num(Computed)
        /\ lastRet.val <= 8
        /\ lastRet.val <= (IF cpuCount \div 2 >= 1 THEN cpuCount \div 2 ELSE 1)

\* 8 CPUs and 16 GB, nothing set in the environment: 4 workers
C12_Witness ==
    /\ Recommended
    /\ cpuCount = 8
    /\ totalmem = 4096
    /\ \A n \in EnvNames : ~ env[n].set
    /\ lastRet = Num(4)

C14_PositiveOverrideOnly ==
    (Recommended /\ ~ IndicatorNonEmpty) =>
        LET n == parseInt(Override.text)
        IN  IF OverrideGiven /\ ~ n.nan /\ n.val >= 1
            THEN lastRet = n
            ELSE lastRet = Num(Computed)

\* C14 amended: outside CI a non-empty override that starts with an integer n
\* takes precedence whatever n is: n itself when n >= 1 (also above 8 and
\* above the CPU count), 1 when n <= 0; only an override that is unset, empty
\* or starts with no number leaves the computed value in effect.
C14_OverrideClamped ==
    (Recommended /\ ~ IndicatorNonEmpty) =>
        LET n == parseInt(Override.text)
        IN  IF OverrideGiven /\ ~ n.nan
            THEN lastRet = (IF n.val >= 1 THEN n ELSE Num(1))
            ELSE lastRet = Num(Computed)

\* CUCUMBER_WORKERS empty and PLAYWRIGHT_WORKERS=12 on a 2-CPU machine: 12
C14_Witness ==
    /\ Recommended
    /\ cpuCount = 2
    /\ env["CUCUMBER_WORKERS"] = SetTo(<<>>)
    /\ env["PLAYWRIGHT_WORKERS"] = SetTo(<<"1", "2">>)
    /\ lastRet = Num(12)

----------------------------------------------------------------------------
(* Properties of validateWorkerConfig (specification SpecValidate) *)

Validated == pc = "validated" /\ lastOp = "validateWorkerConfig"

Has(seq, x) == \E i \in 1..Len(seq) : seq[i] = x

\* the three warnings that leave isValid alone are given exactly when due
AdvisoryWarnings ==
    LET w == lastArgs[1]
    IN  /\ Has(lastRet.warnings, "exceeds_cpu_cores") <=> w > cpuCount
        /\ Has(lastRet.warnings, "very_high_worker_count") <=> w > 8
        /\ Has(lastRet.warnings, "single_worker") <=> w = 1

\* C15 as stated: isValid is false exactly when workerCount * 0.5 GB exceeds
\* the free memory (0.5 GB is 128 units); the other three conditions only add
\* their warning.
C15_InvalidIffOverFreeMemory ==
    Validated =>
        /\ lastRet.isValid = FALSE <=> 128 * lastArgs[1] > freemem
        /\ AdvisoryWarnings

\* C15 amended: isValid is false exactly when workerCount * 0.5 exceeds the
\* free memory rounded to the nearest hundredth of a GB (halves up); the other
\* three conditions only add their warning.
C15_InvalidIffOverRoundedFreeMemory ==
    Validated =>
        /\ lastRet.isValid = FALSE <=> 50 * lastArgs[1] > (200 * freemem + 256) \div 512
        /\ lastRet.isValid = FALSE <=> Has(lastRet.warnings, "exceeds_free_memory")
        /\ AdvisoryWarnings

\* validate(10) on 8 CPUs with 5 GB free: valid, with both warnings
C15_Witness ==
    /\ Validated
    /\ lastArgs = <<10>>
    /\ cpuCount = 8
    /\ lastRet.isValid
    /\ lastRet.warnings = <<"exceeds_cpu_cores", "very_high_worker_count">>

----------------------------------------------------------------------------
(* Properties of mergeConfigs (specification SpecMerge) *)

\* C16: for every key of the override the result holds the key-by-key merge
\* when the base value and the override value are both non-array objects and
\* the override value itself in every other case; keys only in the base keep
\* their value, and the result has no other key.  (Stated for override values
\* other than null.)
C16_MergeByKind ==
    pc = "merged" =>
        LET b == lastArgs[1]
            o == lastArgs[2]
        IN  /\ DOMAIN lastRet = DOMAIN b \cup DOMAIN o
            /\ \A k \in DOMAIN b \ DOMAIN o : lastRet[k] = b[k]
            /\ \A k \in {x \in DOMAIN o : o[x].kind # "null"} :
                  IF k \in DOMAIN b /\ b[k].kind = "obj" /\ o[k].kind = "obj"
                  THEN /\ lastRet[k].kind = "obj"
                       /\ DOMAIN lastRet[k].fields = DOMAIN b[k].fields \cup DOMAIN o[k].fields
                       /\ \A f \in DOMAIN o[k].fields : lastRet[k].fields[f] = o[k].fields[f]
                       /\ \A f \in DOMAIN b[k].fields \ DOMAIN o[k].fields :
                             lastRet[k].fields[f] = b[k].fields[f]
                  ELSE lastRet[k] = o[k]

----------------------------------------------------------------------------
(* Properties of the EnvironmentManager (specification SpecConfig) *)

\* a call of the named operations is made in this step
CallOf(ops) == calls' = calls + 1 /\ lastOp' \in ops

\* what keeps a load of the named environment from succeeding: the first of
\* base.json and <name>.json that is missing or malformed
FirstFailure(name) ==
    IF baseFile.kind # "json" THEN baseFile.kind
    ELSE IF EnvFileOf(envFiles, name).kind # "json" THEN EnvFileOf(envFiles, name).kind
    ELSE "none"

\* the environment name by the stated priority: the argument, TEST_ENV,
\* NODE_ENV, "dev" (a value that is unset or empty counts as not given)
NameByPriority(arg) ==
    IF arg.set /\ arg.text # <<>> THEN arg.text
    ELSE IF env["TEST_ENV"].set /\ env["TEST_ENV"].text # <<>> THEN env["TEST_ENV"].text
    ELSE IF env["NODE_ENV"].set /\ env["NODE_ENV"].text # <<>> THEN env["NODE_ENV"].text
    ELSE DevName

\* C17: loadEnvironment raises a not-found error when a configuration file is
\* missing and a different, parse error when a file is malformed; a failed
\* load leaves the cached configuration as it was (nothing is loaded instead).
C17_DistinctLoadErrors ==
    [][ CallOf({"loadEnvironment"}) =>
          LET failure == FirstFailure(NameByPriority(lastArgs'[1]))
          IN  /\ failure = "absent" => (raised' /\ lastRet'.error = NOT_FOUND_MESSAGE)
              /\ failure = "malformed" => (raised' /\ lastRet'.error # NOT_FOUND_MESSAGE)
              /\ raised' => config' = config
      ]_vars

ConfigAccessors == {"getConfig", "getTestConfig"}

StateAccessors == {"getCurrentEnvironment"}

\* every load resolves its environment name by the stated priority
LoadsResolveByPriority ==
    /\ CallOf({"loadEnvironment"}) =>
          (loadCount' = loadCount + 1 /\ currentEnvironment' = NameByPriority(lastArgs'[1])
             /\ lastLoad'.env = currentEnvironment' /\ lastLoad'.explicit)
    /\ loadCount' # loadCount =>
          (loadCount' = loadCount + 1 /\ CallOf({"loadEnvironment"} \cup ConfigAccessors))

\* the call triggers exactly one load, made without an argument
TriggersOneLoad ==
    /\ loadCount' = loadCount + 1
    /\ ~ lastLoad'.explicit
    /\ lastLoad'.env = NameByPriority(Unset)
    /\ currentEnvironment' = NameByPriority(Unset)

C19_AccessorsArePureReads ==
    [][ config.loaded =>
          /\ CallOf(ConfigAccessors \cup StateAccessors) =>
                /\ config' = config
                /\ currentEnvironment' = currentEnvironment
                /\ fileReads' = fileReads
                /\ loadCount' = loadCount
                /\ ~ raised'
                /\ lastOp' = "getConfig" => lastRet' = config.value
                /\ lastOp' = "getTestConfig" => lastRet' = config.value["test"]
          /\ (config' # config \/ currentEnvironment' # currentEnvironment
                \/ fileReads' # fileReads) => CallOf({"loadEnvironment"})
      ]_vars

\* "dev" was loaded without an argument, TEST_ENV then became "staging", and
\* getConfig still returns the cached "dev" configuration without a new load
C19_Witness ==
    /\ calls = 2
    /\ lastOp = "getConfig"
    /\ prevOp \in ConfigAccessors
    /\ loadCount = 1
    /\ fileReads = 2
    /\ ~ lastLoad.explicit
    /\ currentEnvironment = DevName
    /\ env["TEST_ENV"] = SetTo(StagingName)
    /\ config.loaded
    /\ lastRet = config.value

----------------------------------------------------------------------------
(* Properties of the in-process retry helpers (specification SpecBackoff) *)

Succeeded(helper, outcome) ==
    /\ outcome.kind = "returns"
    /\ helper = "waitWithBackoff" => outcome.what = "true"

\* C20: every retry helper has an attempt ceiling.  A call with ceiling n
\* invokes its operation at most n times and no invocation follows one that
\* succeeded; retryWithBackoff resolves with the value its last invocation
\* returned, and when all n >= 1 invocations threw it rejects with what the
\* n-th invocation threw; waitWithBackoff and smartClick give up with their
\* own error only after exactly n failed invocations.
C20_AttemptCeiling ==
    LET c == retryCall
        n == Len(c.log)
    IN  c.helper \in Helpers =>
          /\ n <= c.max
          /\ \A i \in 1..n :
                Succeeded(c.helper, c.log[i]) => (i = n /\ c.state = "resolved")
          /\ (c.helper = "retryWithBackoff" /\ c.state = "resolved") =>
                (n >= 1 /\ c.log[n].kind = "returns"
                        /\ c.result = Resolved(c.log[n].what))
          /\ (c.helper = "retryWithBackoff" /\ c.state = "rejected" /\ c.max >= 1) =>
                /\ n = c.max
                /\ \A i \in 1..n : c.log[i].kind = "throws"
                /\ c.result = Rejected(c.log[n].what)
          /\ (c.helper = "waitWithBackoff" /\ c.result = ConditionNotMet(c.max)) =>
                (n = c.max /\ \A i \in 1..n : c.log[i] = Returns("false"))
          /\ (c.helper = "smartClick" /\ c.state = "rejected") =>
                /\ n = c.max
                /\ \A i \in 1..n : c.log[i].kind = "throws"
                /\ c.result = FailedToClick(c.max, c.log[n].what)

\* retryWithBackoff(op, 3, 1000) whose operation threw e1, e1 and then e2:
\* two sleeps of 1000 and 2000 ms, three invocations, rejected with e2
C20_Witness ==
    /\ retryCall.helper = "retryWithBackoff"
    /\ retryCall.max = 3
    /\ retryCall.log = <<Throws("e1"), Throws("e1"), Throws("e2")>>
    /\ retryCall.delays = <<1000, 2000>>
    /\ retryCall.state = "rejected"
    /\ retryCall.result = Rejected("e2")

----------------------------------------------------------------------------
(* Properties of the retry invocation (specification SpecSelect) *)

\* C21 as stated: the invocation built for a retry over a registry that holds
\* failures selects exactly the scenarios whose names are in the registry:
\* every registered name, and no scenario with another name.
C21_SelectsExactlyFailedNames ==
    (lastOp \in {"retry_command", "generateRetryCommand"} /\ RegistryNames(registry) # {}) =>
        /\ lastRet.built
        /\ lastRet.selected = RegistryNames(registry)

----------------------------------------------------------------------------
(* More properties of the retry CLI (specification Spec) *)

\* the runner exits non-zero on each of its first k - 1 invocations, so that
\* the loop of retry_failed_tests comes to attempt k
ComesTo(k) == \A j \in 1..(k - 1) : oracle[j] # "recovered"

\* C22: a failure of the runner invocation of an attempt k < MAX_RETRIES does
\* not end the session: attempt k + 1 is run after it.
C22_RunnerFailureIsRetried ==
    (SessionCompleted /\ FailuresFound) =>
        \A k \in 1..(MAX_RETRIES - 1) :
            (ComesTo(k) /\ oracle[k] = "error") => Len(runnerLog) >= k + 1

\* number of attempts a session is to run: up to the first one that recovers
\* everything, MAX_RETRIES at most
AttemptsDue == IF FirstRecovery <= MAX_RETRIES THEN FirstRecovery ELSE MAX_RETRIES

\* C23: a session sleeps RETRY_DELAY exactly once between consecutive
\* attempts, whatever made the earlier one fail, and never after its last
\* attempt: AttemptsDue - 1 sleeps of RETRY_DELAY each.
C23_FlatDelayBetweenAttempts ==
    (SessionCompleted /\ FailuresFound) =>
        sleeps = [i \in 1..(AttemptsDue - 1) |-> RETRY_DELAY]

\* C25: every attempt of a session re-runs all the failures extracted at its
\* start, whatever their error text, and the attempts leave the registry file
\* as extract_failed_tests wrote it.
C25_RetriesAllRecordedFailures ==
    (SessionCompleted /\ FailuresFound) =>
        /\ Len(runnerLog) >= 1
        /\ \A i \in 1..Len(runnerLog) :
              runnerLog[i].names = [j \in 1..Len(extracted) |-> extracted[j].scenarioName]
        /\ registry = JsonWrite(extracted)

----------------------------------------------------------------------------
(* More properties of retryWithBackoff (specification SpecBackoff) *)

\* invocations of the operation that threw
Failed(log) == Cardinality({i \in 1..Len(log) : log[i].kind = "throws"})

Min(a, b) == IF a < b THEN a ELSE b

\* C24: at every point of a call of retryWithBackoff that has failed f times
\* the sleeps so far are min(f, maxRetries - 1) in number (none when
\* maxRetries is 0), the k-th of them lasting baseDelay * 2^(k-1): one sleep
\* after each failed invocation but the last, none after a success.
C24_ExponentialDelays ==
    LET c == retryCall
        f == Failed(c.log)
        n == IF c.max = 0 THEN 0 ELSE Min(f, c.max - 1)
    IN  c.helper = "retryWithBackoff" =>
            c.delays = [k \in 1..n |-> c.baseDelay * 2 ^ (k - 1)]

\* retryWithBackoff(op, 4, 100) whose operation threw three times and then
\* returned: sleeps of 100, 200 and 400 ms, none after the success
C24_Witness ==
    /\ retryCall.helper = "retryWithBackoff"
    /\ retryCall.max = 4
    /\ retryCall.baseDelay = 100
    /\ Failed(retryCall.log) = 3
    /\ retryCall.state = "resolved"
    /\ retryCall.delays = <<100, 200, 400>>

----------------------------------------------------------------------------
(* Properties of concurrent saveFailedTest calls (specification SpecRace) *)

BothSaved == \A w \in WriterIds : writers[w].pc = "done"

InList(list, x) == \E i \in 1..Len(list) : list[i] = x

\* the process loaded the list after the other one had rewritten the file
LoadedAfter(w, other) == InList(writers[w].existingFailed, writers[other].failedTest)

\* C26: saveFailedTest is a read-modify-write without protection.  When two
\* processes have each saved a record the file holds the earlier list
\* followed by the records that survived; the last writer's record always
\* survives, and the other one's survives exactly when the last writer
\* loaded the list after the other had rewritten the file.  When both loaded
\* before either wrote, one of the two records is lost.
C26_LastWriterWins ==
    BothSaved =>
        LET final == getFailedTests(registry)
            added == SubSeq(final, Len(base) + 1, Len(final))
        IN  /\ registry.kind = "json"
            /\ SubSeq(final, 1, Len(base)) = base
            /\ \E w \in WriterIds :
                  LET other == CHOOSE o \in WriterIds : o # w
                  IN  /\ final = writers[w].existingFailed
                      /\ InList(added, writers[w].failedTest)
                      /\ InList(added, writers[other].failedTest) <=> LoadedAfter(w, other)
                      /\ Len(added) = IF LoadedAfter(w, other) THEN 2 ELSE 1

\* both processes loaded the one-record list, then both rewrote the file: the
\* file holds the old record and the record of w2; that of w1 is lost
C26_Witness ==
    /\ BothSaved
    /\ base = <<OldTest>>
    /\ Len(saved) = 2
    /\ lastArgs = <<"w2">>
    /\ registry = JsonFile(<<OldTest, writers["w2"].failedTest>>)
    /\ ~ InList(registry.data, writers["w1"].failedTest)

----------------------------------------------------------------------------
(* More properties of the EnvironmentManager (specification SpecConfig) *)

\* environment.name of the cached configuration
CachedName == config.value["environment"].fields["name"]

\* environment.name in the file of the named environment
NameInFile(name) ==
    IF name = DevName THEN "dev" ELSE IF name = StagingName THEN "staging" ELSE "none"

\* C27: whatever loads succeeded and failed so far, the current environment
\* name is that of the cached configuration (a failed load changes neither).
C27_CurrentNamesCachedConfig ==
    config.loaded => CachedName = NameInFile(currentEnvironment)

----------------------------------------------------------------------------
(* More properties of generateRetryReport (specification SpecSummary) *)

\* C28: in every summary written, whatever the two lists hold, the recovered
\* count is not negative, is the number of details.recovered entries, and
\* adds up with stillFailing to originalFailures.
C28_RecoveredCountMatchesDetails ==
    pc = "returned" =>
        /\ summary.data.recovered >= 0
        /\ summary.data.recovered = Len(summary.data.details.recovered)
        /\ summary.data.recovered + summary.data.stillFailing = summary.data.originalFailures

----------------------------------------------------------------------------
(* Properties of the cloud-capable world (specification SpecWorld) *)

\* C29: once the After hook of a scenario whose init() completed has run, no
\* browser that init() launched locally is still running, also when the
\* service URL is set and init() fell back to a local browser.
C29_LocalBrowserClosed ==
    (pc = "done" /\ ~ world.threw) => world.localBrowser # "running"

----------------------------------------------------------------------------
(* Properties of splitScenariosAcrossWorkers (specification SpecSplit) *)

\* number of scenarios in all the chunks together
RECURSIVE Held(_)
Held(chunks) == IF Len(chunks) = 0 THEN 0 ELSE Len(chunks[1]) + Held(Tail(chunks))

\* C30: for a list of n scenarios and w >= 1 workers the result is min(n, w)
\* non-empty chunks, chunk k holding the scenarios at the indices k - 1,
\* k - 1 + w, k - 1 + 2w, ... in that order, with sizes that differ by at
\* most 1; for every w, also w <= 0, the chunks together hold all n
\* scenarios.
C30_RoundRobinPartition ==
    LET scenarios == lastArgs[1]
        w == lastArgs[2]
        n == Len(scenarios)
    IN  pc = "returned" =>
          /\ Held(lastRet) = n
          /\ w >= 1 =>
                /\ Len(lastRet) = Min(n, w)
                /\ \A k \in 1..Len(lastRet) :
                      /\ Len(lastRet[k]) >= 1
                      /\ \A j \in 1..Len(lastRet[k]) :
                            /\ k + (j - 1) * w <= n
                            /\ lastRet[k][j] = scenarios[k + (j - 1) * w]
                /\ \A k, m \in 1..Len(lastRet) :
                      Len(lastRet[k]) - Len(lastRet[m]) <= 1

====
